---- MODULE Spec2Model ----
(***************************************************************************)
(* A model of the execution core of anacostia_pipeline:                    *)
(*   engine/node.py      SignalAST, BaseNode (the worker's run loop, the   *)
(*                       pausable hooks, the mailbox), ResourceNode (the   *)
(*                       reference-count / event protocol)                 *)
(*   engine/pipeline.py  Pipeline (construction, launch, terminate)        *)
(*   engine/logic.py     AndAndNode.run                                    *)
(* Every thread of the program is a process with a position (pc); one      *)
(* action is one step of one thread between two accesses of shared state.  *)
(***************************************************************************)
EXTENDS Integers, Sequences, FiniteSets, TLC

\* ------------------------------------------------------------------ bounds

\* The longest mailbox a node is let to build up: pre_trigger() (a user hook,
\* an input of the model) answers True only while every successor's mailbox
\* is shorter than this.
MaxQueue == 2

\* The calls of an externally accessible method one reader thread makes.
MaxReaderCalls == 2

\* The calls of a method guarded by await_references the resource node makes.
MaxMutatorCalls == 2

\* The calls of trigger() counted ahead of the execute phases begun.
MaxTriggerCredit == 2

\* The rows of the table `runs` and of the table `samples`.
MaxRuns == 2
MaxSamples == 2

\* The SUCCESS messages of one sender counted ahead of the execute phases its
\* successor has begun.
MaxLead == 2

\* The parameters of a signal expression built directly from nodes.
MaxParameters == 2

\* ------------------------------------------------------------------- names

Nodes == {"A", "B", "C"}

\* The threads of the successors that call the externally accessible methods
\* of the resource node.
Readers == {"S1", "S2"}

\* The node that is the resource node, and the threads other than its own
\* that call its resource accessors.
Store == "A"
Accessors == {"T1", "T2"}

\* The thread of the watchdog observer, which calls on_modified.
Watcher == "T1"

\* The files that appear in the directory of the artifact store, in the order
\* os.listdir gives them, and a path that ends with ".json".
Files == {"f1", "f2"}
FileOrder == <<"f1", "f2">>
JsonPaths == {"x.json"}

\* The order in which the node objects were constructed (a node is constructed
\* after the nodes it listens to).
NodeOrder == <<"A", "B", "C">>

\* engine.constants.Status, as node.py uses it
OFF == "OFF"
INIT == "INIT"
RUNNING == "RUNNING"
PAUSED == "PAUSED"
STOPPING == "STOPPING"
EXITED == "EXITED"
ERROR == "ERROR"
SUCCESS == "SUCCESS"
FAILURE == "FAILURE"

\* No entry for that sender in received_signals.
NONE == "NONE"

\* The hooks node.py decorates with @pausable.
PausableHooks ==
    {"pre_trigger", "check_signals", "pre_execution", "execute", "on_success",
     "on_failure", "post_execution", "send_signals"}

VARIABLES
    \* BaseNode: the fields __init__ sets and nothing changes afterwards
    signal_ast,         \* node -> SignalAST
    dependent_nodes,    \* node -> set of nodes
    successors,         \* node -> sequence of nodes
    auto_trigger,       \* node -> BOOLEAN
    \* BaseNode: the fields that change
    status,             \* node -> Status (self._status)
    triggered,          \* node -> BOOLEAN
    waiting,            \* node -> BOOLEAN
    incoming_signals,   \* node -> sequence of Message (the Queue)
    received_signals,   \* node -> [sender -> NONE | SUCCESS | FAILURE]
    \* the worker thread of each node
    pc,                 \* node -> <<kind, place>>: where the thread is
    ret,                \* node -> what execute() did in the phase in progress
    send_i,             \* node -> the index of send_signals' loop over successors
    \* what has happened (history, read by the properties only)
    hook_log,           \* node -> the hooks begun in the phase in progress
    sent_log,           \* node -> [successor -> messages put by the emission in progress]
    stop_called,        \* node -> stop() has been called
    \* ResourceNode: the fields of one resource node, and the threads using it
    reference_count,    \* self.reference_count
    event,              \* self.event is set
    reader_pc,          \* reader thread -> where it is in an externally accessible method
    reader_calls,       \* reader thread -> the calls it has begun
    mutator_pc,         \* where the node is in a method guarded by await_references
    mutator_calls,      \* the calls of such a method the node has begun
    \* Pipeline, and the thread that constructs, launches and terminates it
    kind,               \* node -> "node" (a BaseNode) | "andand" (an AndAndNode) |
                        \* "resource" | "artifact" | "metadata" (the stores)
    pipeline_input,     \* the nodes the constructor is called with
    pipeline,           \* "none" | "built" | "raised" | "unfeasible"
    pipeline_nodes,     \* self.nodes
    ctl,                \* where the controlling thread is
    ctl_i,              \* the index of the loop of launch_nodes / terminate_nodes
    back_signals,       \* node -> the nodes that have signalled back to it
    back_due,           \* node -> a barrier has signalled it and has had no answer
    \* what has happened (history, read by the properties only)
    start_log,          \* the nodes launch_nodes has started, in order
    exit_log,           \* the nodes terminate_nodes has told to stop, in order
    setup_failed,       \* node -> its setup() has raised
    trigger_credit,     \* node -> calls of trigger() less execute phases begun
                        \* (-1: a phase has begun that no call had paid for)
    \* one evaluation of a signal expression, on its own
    eval_ast,           \* the expression
    eval_received,      \* the received map it is evaluated on
    eval_result,        \* "none" | "true" | "false" | "raised"
    \* ResourceNode: resource_accessor, and the threads that call accessors
    resource_lock,      \* "free" | the thread that holds self.resource_lock
    accessor_pc,        \* caller thread -> where it is in a resource accessor
    setup_done,         \* the body of the resource node's setup() has returned
    \* ArtifactStoreNode: data_store.json and the threads that read and write it
    data_store,         \* the "files" list of data_store.json
    json_data,          \* thread -> the list it has loaded from the file
    event_path,         \* watcher thread -> event.src_path of the call in progress
    \* SqliteMetadataStore: the tables
    meta_ready,         \* setup() has created the tables and the session factory
    runs,               \* the rows of `runs`, in the order of their ids
    samples,            \* the rows of `samples`, in the order of their ids
    \* what has happened, recorded only for the kinds named in `observed`
    observed,           \* subset of {"exit", "trigger", "lead"}
    on_exit_called,     \* node -> run has called on_exit()
    trigger_pending,    \* node -> trigger() was called and no phase has begun since
    lead                \* node -> [sender -> SUCCESS messages the sender has put in
                        \* the node's mailbox less the execute phases the node has
                        \* begun (-1: a phase more than messages)]

evalVars == <<eval_ast, eval_received, eval_result>>
accessVars == <<resource_lock, accessor_pc, setup_done>>
storeVars == <<data_store, json_data, event_path>>
metaVars == <<meta_ready, runs, samples>>
dataVars == <<storeVars, metaVars>>
\* What belongs to one part of the model and is left alone by the others.
apartVars == <<evalVars, accessVars, dataVars>>
watchVars == <<observed, on_exit_called, trigger_pending, lead>>
obsVars == <<setup_failed, trigger_credit, watchVars>>
cfgVars == <<signal_ast, dependent_nodes, successors, auto_trigger, kind,
             pipeline_input, apartVars>>
nodeVars == <<status, triggered, waiting, incoming_signals, received_signals,
              pc, ret, send_i>>
histVars == <<hook_log, sent_log, stop_called, obsVars>>
resVars == <<reference_count, event, reader_pc, reader_calls, mutator_pc,
             mutator_calls>>
pipeVars == <<pipeline, pipeline_nodes, ctl, ctl_i, back_signals, back_due,
              start_log, exit_log>>
\* What no step of a worker changes.
outerVars == <<cfgVars, resVars, pipeVars>>
\* What no step of the resource protocol changes.
nodeSide == <<cfgVars, nodeVars, histVars, pipeVars>>
vars == <<cfgVars, nodeVars, histVars, resVars, pipeVars>>

\* ------------------------------------------------------- signal expressions

\* A SignalAST is [operation, parameters]; a parameter that is a node (not a
\* SignalAST) is [operation |-> "NODE", name |-> the node's name].
Leaf(n) == [operation |-> "NODE", name |-> n, parameters |-> <<>>]
AST(op, params) == [operation |-> op, name |-> "", parameters |-> params]
Not(x) == AST("NOT", <<x>>)
And(params) == AST("AND", params)
Or(params) == AST("OR", params)
XOr(params) == AST("XOR", params)

isSignalAST(param) == param.operation # "NODE"

\* Whether evaluate raises: the assert of NOT, reduce() of an empty list for
\* XOR, the ValueError of an unknown operation; the parameters are evaluated
\* first, so a raise below comes out at the top.
RECURSIVE evaluate_raises(_)
evaluate_raises(ast) ==
    \/ \E i \in 1..Len(ast.parameters) :
          /\ isSignalAST(ast.parameters[i])
          /\ evaluate_raises(ast.parameters[i])
    \/ ast.operation = "NOT" /\ Len(ast.parameters) # 1
    \/ ast.operation = "XOR" /\ Len(ast.parameters) = 0
    \/ ast.operation \notin {"NOT", "AND", "OR", "XOR"}

\* reduce(lambda x, y: x ^ x, evaluated_params): the only element of a list of
\* one, and x ^ x (False) as soon as there is a second element.
xor_reduce(evaluated_params) ==
    IF Len(evaluated_params) = 1 THEN evaluated_params[1] ELSE FALSE

\* A plausible slip: a node no message has been received from counts as a
\* SUCCESS (only a FAILURE makes the leaf false).
RECURSIVE evaluate_absent_as_success(_, _)
evaluate_absent_as_success(ast, received) ==
    LET evaluated_params ==
            [i \in 1..Len(ast.parameters) |->
                IF isSignalAST(ast.parameters[i])
                THEN evaluate_absent_as_success(ast.parameters[i], received)
                ELSE received[ast.parameters[i].name] # FAILURE]
    IN  CASE ast.operation = "NOT" -> ~evaluated_params[1]
          [] ast.operation = "AND" ->
                \A i \in 1..Len(evaluated_params) : evaluated_params[i]
          [] ast.operation = "OR" ->
                \E i \in 1..Len(evaluated_params) : evaluated_params[i]
          [] OTHER -> xor_reduce(evaluated_params)

\* SignalAST.evaluate, where it does not raise; received is the node's
\* received_signals.
RECURSIVE evaluate(_, _)
evaluate(ast, received) ==
    LET evaluated_params ==
            [i \in 1..Len(ast.parameters) |->
                IF isSignalAST(ast.parameters[i])
                THEN evaluate(ast.parameters[i], received)
                ELSE received[ast.parameters[i].name] = SUCCESS]
    IN  CASE ast.operation = "NOT" -> ~evaluated_params[1]
          [] ast.operation = "AND" ->
                \A i \in 1..Len(evaluated_params) : evaluated_params[i]
          [] ast.operation = "OR" ->
                \E i \in 1..Len(evaluated_params) : evaluated_params[i]
          [] OTHER -> xor_reduce(evaluated_params)

\* SignalAST.nodes
RECURSIVE nodes(_)
nodes(ast) ==
    UNION { IF isSignalAST(ast.parameters[i])
            THEN nodes(ast.parameters[i])
            ELSE {ast.parameters[i].name} : i \in 1..Len(ast.parameters) }

\* -------------------------------------------- one evaluation, on its own

\* The sequences of at most k members of S.
SeqsUpTo(S, k) == UNION {[1..j -> S] : j \in 0..k}

\* The expressions that are evaluated: built with Not, And, Or and XOr (and
\* with SignalAST itself, which takes any operation with any parameters) from
\* the nodes, one, two and three operators deep.
EvalLeaves == {Leaf(n) : n \in Nodes}
EvalTrees1 ==
    {AST(op, ps) : op \in {"NOT", "AND", "OR", "XOR"},
                   ps \in SeqsUpTo(EvalLeaves, MaxParameters)}
EvalTrees2 ==
    {Not(t) : t \in EvalTrees1}
        \cup {AST(op, <<l, t>>) : op \in {"AND", "OR", "XOR"},
                                  l \in EvalLeaves, t \in EvalTrees1}
EvalTrees3 ==
    {AST(op, <<l, AST(op2, <<m, Not(k)>>)>>) :
        op \in {"AND", "OR"}, op2 \in {"AND", "OR"},
        l \in EvalLeaves, m \in EvalLeaves, k \in EvalLeaves}
EvalTrees == EvalTrees1 \cup EvalTrees2 \cup EvalTrees3

\* An expression and a received map (a node absent from the map is NONE).
EvalInput ==
    /\ eval_ast \in EvalTrees
    /\ eval_received \in [Nodes -> {NONE, SUCCESS, FAILURE}]
    /\ eval_result = "none"

\* self.signal_ast.evaluate(self) returns True or False, or raises.
evaluate_call ==
    /\ eval_result = "none"
    /\ eval_result' =
          IF evaluate_raises(eval_ast) THEN "raised"
          ELSE IF evaluate(eval_ast, eval_received) THEN "true" ELSE "false"
    /\ UNCHANGED <<signal_ast, dependent_nodes, successors, auto_trigger, kind,
                   pipeline_input, eval_ast, eval_received, accessVars, dataVars,
                   nodeVars, histVars, resVars, pipeVars>>

\* ---------------------------------------------------------------- messages

\* Message(sender, signal_type, timestamp, status); signal_type is the same
\* string for every node of the model and the timestamp is read by nothing.
Message(sender, st) == [sender |-> sender, status |-> st]

\* ------------------------------------------------------ BaseNode.__init__

\* The sequence of the nodes of S, in the order of their construction.
InOrder(S) == SelectSeq(NodeOrder, LAMBDA m : m \in S)

\* The fields after the constructors of all nodes have run: listen[n] is the
\* listen_to list of node n and auto[n] its auto_trigger.
BaseNodeInitObserving(listen, auto, obs) ==
    /\ observed = obs
    /\ on_exit_called = [n \in Nodes |-> FALSE]
    /\ trigger_pending = [n \in Nodes |-> FALSE]
    /\ lead = [n \in Nodes |-> [m \in Nodes |-> 0]]
    /\ signal_ast = [n \in Nodes |-> And(listen[n])]
    /\ dependent_nodes = [n \in Nodes |-> nodes(And(listen[n]))]
    /\ successors =
          [n \in Nodes |-> InOrder({m \in Nodes : n \in nodes(And(listen[m]))})]
    /\ auto_trigger = auto
    /\ triggered = auto
    /\ status = [n \in Nodes |-> OFF]
    /\ waiting = [n \in Nodes |-> FALSE]
    /\ incoming_signals = [n \in Nodes |-> <<>>]
    /\ received_signals = [n \in Nodes |-> [m \in Nodes |-> NONE]]
    /\ pc = [n \in Nodes |-> <<"at", "off">>]
    /\ ret = [n \in Nodes |-> "none"]
    /\ send_i = [n \in Nodes |-> 0]
    /\ hook_log = [n \in Nodes |-> <<>>]
    /\ sent_log = [n \in Nodes |-> [m \in Nodes |-> <<>>]]
    /\ stop_called = [n \in Nodes |-> FALSE]
    /\ setup_failed = [n \in Nodes |-> FALSE]
    /\ trigger_credit = [n \in Nodes |-> 0]

\* The same, with no history recorded but what every specification reads.
BaseNodeInit(listen, auto) == BaseNodeInitObserving(listen, auto, {})

\* No expression is being evaluated on its own.
EvalNone ==
    /\ eval_ast = And(<<>>)
    /\ eval_received = [m \in Nodes |-> NONE]
    /\ eval_result = "none"

\* No pipeline has been constructed: the nodes are BaseNodes (or AndAndNodes,
\* as kinds says) and `input` is what the constructor will be called with.
PipelineNone(kinds, input) ==
    /\ kind = kinds
    /\ pipeline_input = input
    /\ pipeline = "none"
    /\ pipeline_nodes = <<>>
    /\ ctl = "new"
    /\ ctl_i = 0
    /\ back_signals = [n \in Nodes |-> {}]
    /\ back_due = [n \in Nodes |-> FALSE]
    /\ start_log = <<>>
    /\ exit_log = <<>>

\* --------------------------------------------------- BaseNode: the worker

At(n, place) == pc[n] = <<"at", place>>
Goto(n, place) == pc' = [pc EXCEPT ![n] = <<"at", place>>]

\* Thread.start(): the thread exists and is about to run run().
start(n) ==
    /\ At(n, "off")
    /\ Goto(n, "run")
    /\ UNCHANGED <<outerVars, status, triggered, waiting, incoming_signals,
                   received_signals, ret, send_i, histVars>>

\* run, line 333: self.status = Status.INIT, and setup() begins.
run_init(n) ==
    /\ At(n, "run")
    /\ status' = [status EXCEPT ![n] = INIT]
    /\ Goto(n, "setup")
    /\ UNCHANGED <<outerVars, triggered, waiting, incoming_signals,
                   received_signals, ret, send_i, histVars>>

\* run, line 341: setup() has returned; self.status = Status.RUNNING.
setup_returns(n) ==
    /\ At(n, "setup")
    /\ status' = [status EXCEPT ![n] = RUNNING]
    /\ Goto(n, "loop")
    /\ UNCHANGED <<outerVars, triggered, waiting, incoming_signals,
                   received_signals, ret, send_i, histVars>>

\* A plausible slip: the except clause of setup() has no return, and the
\* worker goes on into its loop.
setup_raises_no_return(n) ==
    /\ At(n, "setup")
    /\ status' = [status EXCEPT ![n] = ERROR]
    /\ Goto(n, "loop")
    /\ setup_failed' = [setup_failed EXCEPT ![n] = TRUE]
    /\ UNCHANGED <<outerVars, triggered, waiting, incoming_signals,
                   received_signals, ret, send_i, hook_log, sent_log, stop_called,
                   trigger_credit, watchVars>>

\* run, lines 336-339: setup() has raised; self.status = Status.ERROR; return.
setup_raises(n) ==
    /\ At(n, "setup")
    /\ status' = [status EXCEPT ![n] = ERROR]
    /\ Goto(n, "done")
    /\ setup_failed' = [setup_failed EXCEPT ![n] = TRUE]
    /\ UNCHANGED <<outerVars, triggered, waiting, incoming_signals,
                   received_signals, ret, send_i, hook_log, sent_log, stop_called,
                   trigger_credit, watchVars>>

\* run, lines 344, 383, 387: the three reads of self.status of the if/elif
\* chain, each a read of its own.
loop_if_running(n) ==
    /\ At(n, "loop")
    /\ IF status[n] = RUNNING
       THEN pc' = [pc EXCEPT ![n] = <<"wait", "pre_trigger">>]
       ELSE Goto(n, "elif_paused")
    /\ UNCHANGED <<outerVars, status, triggered, waiting, incoming_signals,
                   received_signals, ret, send_i, histVars>>

loop_elif_paused(n) ==
    /\ At(n, "elif_paused")
    /\ IF status[n] = PAUSED
       THEN Goto(n, "if_exited")
       ELSE Goto(n, "elif_stopping")
    /\ UNCHANGED <<outerVars, status, triggered, waiting, incoming_signals,
                   received_signals, ret, send_i, histVars>>

loop_elif_stopping(n) ==
    /\ At(n, "elif_stopping")
    /\ IF status[n] = STOPPING
       THEN /\ Goto(n, "on_exit")
            /\ on_exit_called' =
                  [on_exit_called EXCEPT ![n] = @ \/ "exit" \in observed]
       ELSE /\ Goto(n, "if_exited")
            /\ UNCHANGED on_exit_called
    /\ UNCHANGED <<outerVars, status, triggered, waiting, incoming_signals,
                   received_signals, ret, send_i, hook_log, sent_log, stop_called,
                   setup_failed, trigger_credit, observed, trigger_pending, lead>>

\* run, lines 388-389: on_exit() returns; self.status = Status.EXITED.
on_exit_returns(n) ==
    /\ At(n, "on_exit")
    /\ status' = [status EXCEPT ![n] = EXITED]
    /\ Goto(n, "if_exited")
    /\ UNCHANGED <<outerVars, triggered, waiting, incoming_signals,
                   received_signals, ret, send_i, histVars>>

\* run, line 388: on_exit() raises; nothing in run catches it, the thread
\* ends with the exception.
on_exit_raises(n) ==
    /\ At(n, "on_exit")
    /\ Goto(n, "done")
    /\ UNCHANGED <<outerVars, status, triggered, waiting, incoming_signals,
                   received_signals, ret, send_i, histVars>>

\* run, lines 391-394: break when the status is EXITED, else sleep and loop.
loop_if_exited(n) ==
    /\ At(n, "if_exited")
    /\ IF status[n] = EXITED THEN Goto(n, "done") ELSE Goto(n, "loop")
    /\ UNCHANGED <<outerVars, status, triggered, waiting, incoming_signals,
                   received_signals, ret, send_i, histVars>>

\* A plausible slip: the wrapper gives the hook up when the node is being
\* stopped.
pausable_while_gives_up(n) ==
    /\ pc[n][1] = "wait"
    /\ status[n] # PAUSED
    /\ IF status[n] = STOPPING
       THEN Goto(n, "loop")
       ELSE pc' = [pc EXCEPT ![n] = <<"call", pc[n][2]>>]
    /\ UNCHANGED <<outerVars, status, triggered, waiting, incoming_signals,
                   received_signals, ret, send_i, histVars>>

\* The wrapper of @pausable, lines 168-169: the loop `while self.status ==
\* Status.PAUSED` reads a status that is not PAUSED and ends.
pausable_while(n) ==
    /\ pc[n][1] = "wait"
    /\ status[n] # PAUSED
    /\ pc' = [pc EXCEPT ![n] = <<"call", pc[n][2]>>]
    /\ UNCHANGED <<outerVars, status, triggered, waiting, incoming_signals,
                   received_signals, ret, send_i, histVars>>

\* The wrapper of @pausable, line 171: func is called, the hook begins.
pausable_return_func(n) ==
    /\ pc[n][1] = "call"
    /\ pc' = [pc EXCEPT ![n] = <<"in", pc[n][2]>>]
    /\ hook_log' = [hook_log EXCEPT ![n] = Append(@, pc[n][2])]
    /\ send_i' = [send_i EXCEPT ![n] = IF pc[n][2] = "send_signals" THEN 1 ELSE @]
    /\ sent_log' = [sent_log EXCEPT ![n] =
                      IF pc[n][2] = "send_signals" THEN [m \in Nodes |-> <<>>] ELSE @]
    /\ UNCHANGED <<outerVars, status, triggered, waiting, incoming_signals,
                   received_signals, ret, stop_called, obsVars>>

\* The wrapper of @pausable: spin while the status is PAUSED, then call the
\* hook.
pausable(n) == pausable_while(n) \/ pausable_return_func(n)

InHook(n, hook) == pc[n] = <<"in", hook>>
Call(n, hook) == pc' = [pc EXCEPT ![n] = <<"wait", hook>>]

\* Whether every successor's mailbox has room for one more message.
HasRoom(n) ==
    \A i \in 1..Len(successors[n]) :
        Len(incoming_signals[successors[n][i]]) < MaxQueue

\* run, lines 349-360 up to the call of check_signals: pre_trigger() returns r.
pre_trigger(n, r) ==
    /\ InHook(n, "pre_trigger")
    /\ r => HasRoom(n)
    /\ IF ~r
       THEN /\ waiting' = [waiting EXCEPT ![n] = TRUE]
            /\ Goto(n, "loop")
       ELSE /\ waiting' = [waiting EXCEPT ![n] = FALSE]
            /\ IF triggered[n] THEN Call(n, "check_signals") ELSE Goto(n, "if_exited")
    /\ hook_log' = [hook_log EXCEPT ![n] = <<>>]
    /\ UNCHANGED <<outerVars, status, triggered, incoming_signals,
                   received_signals, ret, send_i, sent_log, stop_called, obsVars>>

\* A plausible slip: the mailbox is emptied newest message first (a stack,
\* not a queue), so that the oldest message of a sender is registered last.
RECURSIVE drain_newest_first(_, _)
drain_newest_first(queue, received) ==
    IF queue = <<>> THEN received
    ELSE drain_newest_first(
             SubSeq(queue, 1, Len(queue) - 1),
             [received EXCEPT ![queue[Len(queue)].sender] = queue[Len(queue)].status])

\* The received_signals of check_signals' loop, lines 235-237: every queued
\* message registered under its sender, in the order of the queue.
RECURSIVE drain(_, _)
drain(queue, received) ==
    IF queue = <<>> THEN received
    ELSE drain(Tail(queue),
               [received EXCEPT ![Head(queue).sender] = Head(queue).status])

\* A plausible slip: the gate is evaluated on the received map as it was
\* before the mailbox was drained.
check_signals_result_undrained(n) ==
    IF Cardinality(dependent_nodes[n]) > 0
    THEN IF incoming_signals[n] = <<>>
         THEN FALSE
         ELSE evaluate(signal_ast[n], received_signals[n])
    ELSE TRUE

\* A plausible slip: no early return on an empty mailbox; the gate is
\* evaluated on whatever has been received so far.
check_signals_result_no_empty_return(n) ==
    IF Cardinality(dependent_nodes[n]) > 0
    THEN evaluate(signal_ast[n], drain(incoming_signals[n], received_signals[n]))
    ELSE TRUE

\* What check_signals returns, lines 227-245.
check_signals_result(n) ==
    IF Cardinality(dependent_nodes[n]) > 0
    THEN IF incoming_signals[n] = <<>>
         THEN FALSE
         ELSE evaluate(signal_ast[n], drain(incoming_signals[n], received_signals[n]))
    ELSE TRUE

\* check_signals, lines 222-245, and run, lines 357-363.
check_signals(n) ==
    /\ InHook(n, "check_signals")
    /\ IF Cardinality(dependent_nodes[n]) > 0 /\ incoming_signals[n] # <<>>
       THEN /\ received_signals' =
                  [received_signals EXCEPT
                      ![n] = drain(incoming_signals[n], received_signals[n])]
            /\ incoming_signals' = [incoming_signals EXCEPT ![n] = <<>>]
       ELSE UNCHANGED <<received_signals, incoming_signals>>
    /\ IF check_signals_result(n)
       THEN /\ waiting' = [waiting EXCEPT ![n] = FALSE]
            /\ Call(n, "pre_execution")
            /\ hook_log' = [hook_log EXCEPT ![n] = <<>>]
            /\ trigger_credit' =
                  [trigger_credit EXCEPT ![n] = IF @ > 0 THEN @ - 1 ELSE -1]
            /\ trigger_pending' = [trigger_pending EXCEPT ![n] = FALSE]
            /\ lead' =
                  [lead EXCEPT ![n] =
                      [m \in Nodes |->
                          IF "lead" \in observed /\ m \in dependent_nodes[n]
                          THEN (IF lead[n][m] > 0 THEN lead[n][m] - 1 ELSE -1)
                          ELSE lead[n][m]]]
       ELSE /\ waiting' = [waiting EXCEPT ![n] = TRUE]
            /\ Goto(n, "loop")
            /\ hook_log' = [hook_log EXCEPT ![n] = <<>>]
            /\ UNCHANGED <<trigger_credit, trigger_pending, lead>>
    /\ UNCHANGED <<outerVars, status, triggered, ret, send_i, sent_log, stop_called,
                   setup_failed, observed, on_exit_called>>

\* run, line 363: pre_execution() returns.
pre_execution(n) ==
    /\ InHook(n, "pre_execution")
    /\ Call(n, "execute")
    /\ UNCHANGED <<outerVars, status, triggered, waiting, incoming_signals,
                   received_signals, ret, send_i, histVars>>

\* A plausible slip: a raise of execute() is not caught and ends the thread.
execute_uncaught(n, r) ==
    /\ InHook(n, "execute")
    /\ ret' = [ret EXCEPT ![n] = r]
    /\ IF r = "true" THEN Call(n, "on_success")
       ELSE IF r = "false" THEN Call(n, "on_failure")
       ELSE Goto(n, "done")
    /\ UNCHANGED <<outerVars, status, triggered, waiting, incoming_signals,
                   received_signals, send_i, histVars>>

\* run, lines 366-377: execute() returns True ("true"), returns False
\* ("false") or raises ("raise").
execute(n, r) ==
    /\ InHook(n, "execute")
    /\ ret' = [ret EXCEPT ![n] = r]
    /\ IF r = "true" THEN Call(n, "on_success") ELSE Call(n, "on_failure")
    /\ UNCHANGED <<outerVars, status, triggered, waiting, incoming_signals,
                   received_signals, send_i, histVars>>

\* run, lines 369-370: on_success() returns.
on_success(n) ==
    /\ InHook(n, "on_success")
    /\ Call(n, "post_execution")
    /\ UNCHANGED <<outerVars, status, triggered, waiting, incoming_signals,
                   received_signals, ret, send_i, histVars>>

\* run, lines 373-374 and 377-378: on_failure() returns.
on_failure(n) ==
    /\ InHook(n, "on_failure")
    /\ Call(n, "post_execution")
    /\ UNCHANGED <<outerVars, status, triggered, waiting, incoming_signals,
                   received_signals, ret, send_i, histVars>>

\* run, lines 370-371, 374-375, 378-379: post_execution() returns.
post_execution(n) ==
    /\ InHook(n, "post_execution")
    /\ Call(n, "send_signals")
    /\ UNCHANGED <<outerVars, status, triggered, waiting, incoming_signals,
                   received_signals, ret, send_i, histVars>>

\* A plausible slip: send_signals is called with SUCCESS on every path.
signal_status_always_success(n) == SUCCESS

\* The status send_signals is called with: SUCCESS on line 371, FAILURE on
\* lines 375 and 379.
signal_status(n) == IF ret[n] = "true" THEN SUCCESS ELSE FAILURE

\* The successor send_signals' loop is at.
send_target(n) == successors[n][send_i[n]]

\* send_signals, lines 256-257: one n.incoming_signals.put(msg).
send_signals_put(n) ==
    /\ InHook(n, "send_signals")
    /\ send_i[n] <= Len(successors[n])
    /\ incoming_signals' =
          [incoming_signals EXCEPT
              ![send_target(n)] = Append(@, Message(n, signal_status(n)))]
    /\ sent_log' =
          [sent_log EXCEPT
              ![n][send_target(n)] = Append(@, Message(n, signal_status(n)))]
    /\ send_i' = [send_i EXCEPT ![n] = @ + 1]
    /\ lead' =
          [lead EXCEPT ![send_target(n)][n] =
              IF "lead" \in observed /\ signal_status(n) = SUCCESS /\ @ < MaxLead
              THEN @ + 1 ELSE @]
    /\ UNCHANGED <<outerVars, status, triggered, waiting, received_signals, pc,
                   ret, hook_log, stop_called, setup_failed, trigger_credit,
                   observed, on_exit_called, trigger_pending>>

\* send_signals returns: the loop over the successors is over.
send_signals_returns(n) ==
    /\ InHook(n, "send_signals")
    /\ send_i[n] > Len(successors[n])
    /\ Goto(n, "reset_trigger")
    /\ UNCHANGED <<outerVars, status, triggered, waiting, incoming_signals,
                   received_signals, ret, send_i, histVars>>

\* A plausible slip: reset_trigger leaves the flag as it is.
reset_trigger_keeps_flag(n) ==
    /\ At(n, "reset_trigger")
    /\ ret' = [ret EXCEPT ![n] = "none"]
    /\ send_i' = [send_i EXCEPT ![n] = 0]
    /\ hook_log' = [hook_log EXCEPT ![n] = <<>>]
    /\ sent_log' = [sent_log EXCEPT ![n] = [m \in Nodes |-> <<>>]]
    /\ Goto(n, "if_exited")
    /\ UNCHANGED <<outerVars, status, triggered, waiting, incoming_signals,
                   received_signals, stop_called, obsVars>>

\* reset_trigger, lines 293-296, called on line 381.
reset_trigger(n) ==
    /\ At(n, "reset_trigger")
    /\ triggered' = [triggered EXCEPT ![n] = IF auto_trigger[n] = FALSE THEN FALSE ELSE @]
    /\ ret' = [ret EXCEPT ![n] = "none"]
    /\ send_i' = [send_i EXCEPT ![n] = 0]
    /\ hook_log' = [hook_log EXCEPT ![n] = <<>>]
    /\ sent_log' = [sent_log EXCEPT ![n] = [m \in Nodes |-> <<>>]]
    /\ Goto(n, "if_exited")
    /\ UNCHANGED <<outerVars, status, waiting, incoming_signals, received_signals,
                   stop_called, obsVars>>

\* ----------------------------------------- BaseNode: calls of other threads

\* A thread's calls are made on a started thread object.
Started(n) == ~At(n, "off")

trigger(n) ==
    /\ Started(n)
    /\ triggered' = [triggered EXCEPT ![n] = TRUE]
    /\ trigger_credit' =
          [trigger_credit EXCEPT ![n] = IF @ < MaxTriggerCredit THEN @ + 1 ELSE @]
    /\ trigger_pending' =
          [trigger_pending EXCEPT ![n] = @ \/ "trigger" \in observed]
    /\ UNCHANGED <<outerVars, status, waiting, incoming_signals, received_signals,
                   pc, ret, send_i, hook_log, sent_log, stop_called, setup_failed,
                   observed, on_exit_called, lead>>

pause(n) ==
    /\ Started(n)
    /\ status' = [status EXCEPT ![n] = PAUSED]
    /\ UNCHANGED <<outerVars, triggered, waiting, incoming_signals,
                   received_signals, pc, ret, send_i, histVars>>

resume(n) ==
    /\ Started(n)
    /\ status' = [status EXCEPT ![n] = RUNNING]
    /\ UNCHANGED <<outerVars, triggered, waiting, incoming_signals,
                   received_signals, pc, ret, send_i, histVars>>

stop(n) ==
    /\ Started(n)
    /\ status' = [status EXCEPT ![n] = STOPPING]
    /\ stop_called' = [stop_called EXCEPT ![n] = TRUE]
    /\ UNCHANGED <<outerVars, triggered, waiting, incoming_signals,
                   received_signals, pc, ret, send_i, hook_log, sent_log, obsVars>>

\* One step of the worker of node n.
worker(n) ==
    \/ run_init(n) \/ setup_returns(n) \/ setup_raises(n)
    \/ loop_if_running(n) \/ loop_elif_paused(n) \/ loop_elif_stopping(n)
    \/ on_exit_returns(n) \/ on_exit_raises(n) \/ loop_if_exited(n)
    \/ pausable(n)
    \/ \E r \in BOOLEAN : pre_trigger(n, r)
    \/ check_signals(n)
    \/ pre_execution(n)
    \/ \E r \in {"true", "false", "raise"} : execute(n, r)
    \/ on_success(n) \/ on_failure(n) \/ post_execution(n)
    \/ send_signals_put(n) \/ send_signals_returns(n)
    \/ reset_trigger(n)

\* ------------------------------------------------------------ ResourceNode

\* SqliteMetadataStore before its setup(): no table, no session factory.
MetadataNone ==
    /\ meta_ready = FALSE
    /\ runs = <<>>
    /\ samples = <<>>

\* ResourceNode.__init__, lines 445-448, and no call in progress.
ResourceNodeInit ==
    /\ data_store = <<>>
    /\ json_data = [t \in Accessors \cup {Store} |-> <<>>]
    /\ event_path = [t \in Accessors |-> "none"]
    /\ resource_lock = "free"
    /\ accessor_pc = [t \in Accessors |-> "idle"]
    /\ setup_done = FALSE
    /\ reference_count = 0
    /\ event = FALSE
    /\ reader_pc = [s \in Readers |-> "idle"]
    /\ reader_calls = [s \in Readers |-> 0]
    /\ mutator_pc = "idle"
    /\ mutator_calls = 0

\* A successor calls a method decorated with exeternally_accessible.
reader_call(s) ==
    /\ reader_pc[s] = "idle"
    /\ reader_calls[s] < MaxReaderCalls
    /\ reader_pc' = [reader_pc EXCEPT ![s] = "enter"]
    /\ reader_calls' = [reader_calls EXCEPT ![s] = @ + 1]
    /\ UNCHANGED <<nodeSide, reference_count, event, mutator_pc, mutator_calls>>

\* exeternally_accessible, lines 482-485: the count goes up under the lock,
\* and the method's body begins.
reader_enter(s) ==
    /\ reader_pc[s] = "enter"
    /\ reference_count' = reference_count + 1
    /\ reader_pc' = [reader_pc EXCEPT ![s] = "body"]
    /\ UNCHANGED <<nodeSide, event, reader_calls, mutator_pc, mutator_calls>>

\* exeternally_accessible, line 487: func returns.
reader_body_returns(s) ==
    /\ reader_pc[s] = "body"
    /\ reader_pc' = [reader_pc EXCEPT ![s] = "exit"]
    /\ UNCHANGED <<nodeSide, reference_count, event, reader_calls, mutator_pc, mutator_calls>>

\* exeternally_accessible, line 487: func raises; nothing catches it in the
\* wrapper, which is left without the count going down.
reader_body_raises(s) ==
    /\ reader_pc[s] = "body"
    /\ reader_pc' = [reader_pc EXCEPT ![s] = "idle"]
    /\ UNCHANGED <<nodeSide, reference_count, event, reader_calls, mutator_pc, mutator_calls>>

\* exeternally_accessible, lines 489-496: the count goes down under the lock,
\* the event is set when it reaches 0, and the wrapper returns.
reader_exit(s) ==
    /\ reader_pc[s] = "exit"
    /\ reference_count' = reference_count - 1
    /\ event' = IF reference_count - 1 = 0 THEN TRUE ELSE event
    /\ reader_pc' = [reader_pc EXCEPT ![s] = "idle"]
    /\ UNCHANGED <<nodeSide, reader_calls, mutator_pc, mutator_calls>>

\* The node calls a method decorated with await_references.
mutator_call ==
    /\ mutator_pc = "idle"
    /\ mutator_calls < MaxMutatorCalls
    /\ mutator_pc' = "wait"
    /\ mutator_calls' = mutator_calls + 1
    /\ UNCHANGED <<nodeSide, reference_count, event, reader_pc, reader_calls>>

\* await_references, lines 453-455: self.event.wait() returns once the event
\* is set, and the method's body begins.
mutator_wait ==
    /\ mutator_pc = "wait"
    /\ event
    /\ mutator_pc' = "body"
    /\ UNCHANGED <<nodeSide, reference_count, event, reader_pc, reader_calls, mutator_calls>>

\* await_references, lines 455-457: func returns; self.event.is_set() is read.
mutator_body_returns ==
    /\ mutator_pc = "body"
    /\ mutator_pc' = IF event THEN "clear" ELSE "idle"
    /\ UNCHANGED <<nodeSide, reference_count, event, reader_pc, reader_calls, mutator_calls>>

\* await_references, lines 458-460: self.event.clear(), and the wrapper returns.
mutator_clear ==
    /\ mutator_pc = "clear"
    /\ event' = FALSE
    /\ mutator_pc' = "idle"
    /\ UNCHANGED <<nodeSide, reference_count, reader_pc, reader_calls, mutator_calls>>

\* One resource node, the threads of two successors and the node's own thread.
InitRes ==
    /\ EvalNone
    /\ BaseNodeInit([n \in Nodes |-> <<>>], [n \in Nodes |-> FALSE])
    /\ PipelineNone([n \in Nodes |-> "node"], {})
    /\ ResourceNodeInit
    /\ MetadataNone

NextRes ==
    \/ \E s \in Readers :
          \/ reader_call(s) \/ reader_enter(s) \/ reader_body_returns(s)
          \/ reader_body_raises(s) \/ reader_exit(s)
    \/ mutator_call \/ mutator_wait \/ mutator_body_returns \/ mutator_clear

SpecRes == InitRes /\ [][NextRes]_vars

\* The same, with every thread that is inside a wrapper scheduled fairly (a
\* call that has begun goes on; whether a call is made is up to the caller).
reader_proceeds(s) ==
    \/ reader_enter(s) \/ reader_body_returns(s)
    \/ reader_body_raises(s) \/ reader_exit(s)

mutator_proceeds == mutator_wait \/ mutator_body_returns \/ mutator_clear

FairSpecRes ==
    /\ InitRes
    /\ [][NextRes]_vars
    /\ \A s \in Readers : WF_vars(reader_proceeds(s))
    /\ WF_vars(mutator_proceeds)

\* ------------------------------------------ ResourceNode: resource_accessor

\* What no step of a resource accessor or of a store changes.
baseSide == <<signal_ast, dependent_nodes, successors, auto_trigger, kind,
              pipeline_input, evalVars, triggered, waiting, incoming_signals,
              received_signals, ret, send_i, hook_log, sent_log, stop_called,
              trigger_credit, watchVars, resVars, pipeVars>>

\* What no step of a resource accessor changes.
accessSide == <<baseSide, dataVars>>

\* resource_accessor with func.__name__ == "setup", lines 503-508, called on
\* line 335: the worker takes self.resource_lock and the body of setup() begins.
accessor_setup_lock(n) ==
    /\ At(n, "setup")
    /\ resource_lock = "free"
    /\ resource_lock' = n
    /\ pc' = [pc EXCEPT ![n] = <<"in", "setup">>]
    /\ UNCHANGED <<accessSide, status, setup_failed, accessor_pc, setup_done>>

\* Line 508: the body of setup() returns and the lock is released.
accessor_setup_returns(n) ==
    /\ pc[n] = <<"in", "setup">>
    /\ resource_lock' = "free"
    /\ setup_done' = TRUE
    /\ Goto(n, "setup_returned")
    /\ UNCHANGED <<accessSide, status, setup_failed, accessor_pc>>

\* Line 508: the body of setup() raises and the lock is released.
accessor_setup_raises(n) ==
    /\ pc[n] = <<"in", "setup">>
    /\ resource_lock' = "free"
    /\ Goto(n, "setup_raised")
    /\ UNCHANGED <<accessSide, status, setup_failed, accessor_pc, setup_done>>

\* run, line 341, after the wrapped setup() has returned.
run_setup_returned(n) ==
    /\ At(n, "setup_returned")
    /\ status' = [status EXCEPT ![n] = RUNNING]
    /\ Goto(n, "loop")
    /\ UNCHANGED <<accessSide, setup_failed, accessVars>>

\* run, lines 336-339, after the wrapped setup() has raised.
run_setup_raised(n) ==
    /\ At(n, "setup_raised")
    /\ status' = [status EXCEPT ![n] = ERROR]
    /\ setup_failed' = [setup_failed EXCEPT ![n] = TRUE]
    /\ Goto(n, "done")
    /\ UNCHANGED <<accessSide, accessVars>>

\* One step of the worker of a resource node whose setup() is decorated with
\* resource_accessor.
resource_worker(n) ==
    \/ run_init(n)
    \/ accessor_setup_lock(n) \/ accessor_setup_returns(n)
    \/ accessor_setup_raises(n)
    \/ run_setup_returned(n) \/ run_setup_raised(n)
    \/ loop_if_running(n) \/ loop_elif_paused(n) \/ loop_elif_stopping(n)
    \/ on_exit_returns(n) \/ on_exit_raises(n) \/ loop_if_exited(n)
    \/ pausable(n)
    \/ \E r \in BOOLEAN : pre_trigger(n, r)
    \/ check_signals(n)
    \/ pre_execution(n)
    \/ \E r \in {"true", "false", "raise"} : execute(n, r)
    \/ on_success(n) \/ on_failure(n) \/ post_execution(n)
    \/ send_signals_put(n) \/ send_signals_returns(n)
    \/ reset_trigger(n)

\* Another thread calls a resource accessor that is not setup.
accessor_call(t) ==
    /\ accessor_pc[t] = "idle"
    /\ accessor_pc' = [accessor_pc EXCEPT ![t] = "while_init"]
    /\ UNCHANGED <<accessSide, status, setup_failed, pc, resource_lock, setup_done>>

\* Lines 510-511: `while self.status == Status.INIT` reads a status that is
\* not INIT and ends.
accessor_while_init(t) ==
    /\ accessor_pc[t] = "while_init"
    /\ status[Store] # INIT
    /\ accessor_pc' = [accessor_pc EXCEPT ![t] = "lock"]
    /\ UNCHANGED <<accessSide, status, setup_failed, pc, resource_lock, setup_done>>

\* Lines 513-515: the caller takes self.resource_lock and the body begins.
accessor_lock(t) ==
    /\ accessor_pc[t] = "lock"
    /\ resource_lock = "free"
    /\ resource_lock' = t
    /\ accessor_pc' = [accessor_pc EXCEPT ![t] = "body"]
    /\ UNCHANGED <<accessSide, status, setup_failed, pc, setup_done>>

\* Line 515: the body returns (or raises) and the lock is released.
accessor_returns(t) ==
    /\ accessor_pc[t] = "body"
    /\ resource_lock' = "free"
    /\ accessor_pc' = [accessor_pc EXCEPT ![t] = "idle"]
    /\ UNCHANGED <<accessSide, status, setup_failed, pc, setup_done>>

\* The threads that are in the body of a resource accessor.
InAccessorBody ==
    {t \in Accessors : accessor_pc[t] = "body"}
        \cup {n \in Nodes : pc[n] = <<"in", "setup">>}

\* ------------------------------------------------------- ArtifactStoreNode

Entry(path, st) == [filepath |-> path, state |-> st]

\* [entry["filepath"] for entry in json_data["files"]]
logged_files(files) == {files[i].filepath : i \in 1..Len(files)}

\* setup, lines 54-60: one entry with the state init_state for each file that
\* os.listdir finds.
listed_entries(present, init_state) ==
    LET listed == SelectSeq(FileOrder, LAMBDA f : f \in present)
    IN  [i \in 1..Len(listed) |-> Entry(listed[i], init_state)]

\* update_state, lines 102-105: the first loop.
current_to_old(files) ==
    [i \in 1..Len(files) |->
        IF files[i].state = "current" THEN Entry(files[i].filepath, "old")
        ELSE files[i]]

\* update_state, lines 107-110: the second loop.
new_to_current(files) ==
    [i \in 1..Len(files) |->
        IF files[i].state = "new" THEN Entry(files[i].filepath, "current")
        ELSE files[i]]

\* A plausible slip: the two loops of update_state in the other order.
update_state_promote_first(files) == current_to_old(new_to_current(files))

\* update_state, lines 102-110: what the call makes of the list it loaded.
update_state_files(files) == new_to_current(current_to_old(files))

\* on_modified, lines 77-83: what the call makes of the list it loaded.
on_modified_files(files, src_path) ==
    IF src_path \notin JsonPaths /\ src_path \notin logged_files(files)
    THEN Append(files, Entry(src_path, "new"))
    ELSE files

\* setup, lines 36-68, under resource_accessor: data_store.json (absent in a
\* fresh anacostia_path) is written with the files found, the observer is
\* started, the body returns and the lock is released.
artifact_setup_returns(n, present, init_state) ==
    /\ pc[n] = <<"in", "setup">>
    /\ data_store' = listed_entries(present, init_state)
    /\ resource_lock' = "free"
    /\ setup_done' = TRUE
    /\ Goto(n, "setup_returned")
    /\ UNCHANGED <<baseSide, metaVars, status, setup_failed, accessor_pc,
                   json_data, event_path>>

\* The observer's thread calls on_modified (a resource accessor) with an event
\* for a file; the observer runs from the end of setup() on.
on_modified_call(t, src_path) ==
    /\ setup_done
    /\ accessor_pc[t] = "idle"
    /\ accessor_pc' = [accessor_pc EXCEPT ![t] = "while_init"]
    /\ event_path' = [event_path EXCEPT ![t] = src_path]
    /\ UNCHANGED <<baseSide, metaVars, status, setup_failed, pc, resource_lock,
                   setup_done, data_store, json_data>>

\* on_modified, lines 73-74: json.load.
on_modified_load(t) ==
    /\ accessor_pc[t] = "body"
    /\ event_path[t] # "none"
    /\ json_data' = [json_data EXCEPT ![t] = data_store]
    /\ accessor_pc' = [accessor_pc EXCEPT ![t] = "loaded"]
    /\ UNCHANGED <<baseSide, metaVars, status, setup_failed, pc, resource_lock,
                   setup_done, data_store, event_path>>

\* on_modified, lines 76-89: the entry is appended, json.dump, the body
\* returns and the lock is released.
on_modified_dump(t) ==
    /\ accessor_pc[t] = "loaded"
    /\ data_store' = on_modified_files(json_data[t], event_path[t])
    /\ json_data' = [json_data EXCEPT ![t] = <<>>]
    /\ event_path' = [event_path EXCEPT ![t] = "none"]
    /\ resource_lock' = "free"
    /\ accessor_pc' = [accessor_pc EXCEPT ![t] = "idle"]
    /\ UNCHANGED <<baseSide, metaVars, status, setup_failed, pc, setup_done>>

\* update_state, lines 99-100, called by the node's own thread once it runs
\* (the call is made from engine/base.py, which is not among the sources):
\* json.load. update_state is not a resource accessor and takes no lock.
update_state_load(n) ==
    /\ At(n, "loop")
    /\ status[n] = RUNNING
    /\ json_data' = [json_data EXCEPT ![n] = data_store]
    /\ pc' = [pc EXCEPT ![n] = <<"in", "update_state">>]
    /\ UNCHANGED <<baseSide, metaVars, status, setup_failed, accessVars,
                   data_store, event_path>>

\* update_state, lines 102-113: the two loops and json.dump.
update_state_dump(n) ==
    /\ pc[n] = <<"in", "update_state">>
    /\ data_store' = update_state_files(json_data[n])
    /\ json_data' = [json_data EXCEPT ![n] = <<>>]
    /\ Goto(n, "loop")
    /\ UNCHANGED <<baseSide, metaVars, status, setup_failed, accessVars,
                   event_path>>

\* ----------------------------------------------------- SqliteMetadataStore

\* The node that is the metadata store.
MetadataStore == "C"

\* A row of `samples`; run_id 0 is None, ended is `end_time is not None`.
Sample(node, location, st, run_id) ==
    [node |-> node, location |-> location, state |-> st, run_id |-> run_id,
     ended |-> FALSE]

\* The ids of the rows session.query(Run).filter_by(end_time=None) finds.
open_runs == {i \in 1..Len(runs) : ~runs[i].ended}

\* get_run_id, lines 98-101: the id of the first of them (the call raises
\* when there is none).
get_run_id == CHOOSE i \in open_runs : \A j \in open_runs : i <= j

\* add_run_id and add_end_time, lines 126-127 and 138-139: the successors of
\* the metadata store that are resource nodes.
resource_successors ==
    {n \in Nodes :
        /\ \E i \in 1..Len(successors[MetadataStore]) :
              successors[MetadataStore][i] = n
        /\ kind[n] = "resource"}

\* What no step of the metadata store changes.
metaSide == <<baseSide, status, setup_failed, pc, accessVars, storeVars>>

\* setup, lines 82-96.
metadata_setup ==
    /\ kind[MetadataStore] = "metadata"
    /\ ~meta_ready
    /\ meta_ready' = TRUE
    /\ UNCHANGED <<metaSide, runs, samples>>

\* start_run, lines 147-152.
start_run ==
    /\ meta_ready
    /\ Len(runs) < MaxRuns
    /\ runs' = Append(runs, [ended |-> FALSE])
    /\ UNCHANGED <<metaSide, meta_ready, samples>>

\* end_run, lines 154-159: the first run that has no end time gets one.
end_run ==
    /\ meta_ready
    /\ open_runs # {}
    /\ runs' = [runs EXCEPT ![get_run_id] = [ended |-> TRUE]]
    /\ UNCHANGED <<metaSide, meta_ready, samples>>

\* create_entry, lines 116-122, called by a resource node with the default
\* state and run_id.
create_entry(resource_node, filepath) ==
    /\ meta_ready
    /\ kind[resource_node] = "resource"
    /\ Len(samples) < MaxSamples
    /\ samples' = Append(samples, Sample(resource_node, filepath, "new", 0))
    /\ UNCHANGED <<metaSide, meta_ready, runs>>

\* add_run_id, lines 124-133. With no open run get_run_id raises at the first
\* sample, before anything is changed.
add_run_id ==
    /\ meta_ready
    /\ samples' =
          IF open_runs = {} THEN samples
          ELSE [i \in 1..Len(samples) |->
                   IF samples[i].node \in resource_successors
                          /\ samples[i].run_id = 0
                   THEN [samples[i] EXCEPT !.run_id = get_run_id,
                                           !.state = "current"]
                   ELSE samples[i]]
    /\ UNCHANGED <<metaSide, meta_ready, runs>>

\* add_end_time, lines 135-145. With no open run get_run_id raises on line 137.
add_end_time ==
    /\ meta_ready
    /\ samples' =
          IF open_runs = {} THEN samples
          ELSE [i \in 1..Len(samples) |->
                   IF samples[i].node \in resource_successors
                          /\ samples[i].run_id = get_run_id
                          /\ ~samples[i].ended
                   THEN [samples[i] EXCEPT !.ended = TRUE, !.state = "old"]
                   ELSE samples[i]]
    /\ UNCHANGED <<metaSide, meta_ready, runs>>

\* ------------------------------------------------ a node and its successor

\* A (triggered from outside) with the successors B and C, which listen to A;
\* the threads of A and B are started, the thread of C is not: what A sends C
\* stays in C's mailbox.
LifeNodes == {"A", "B"}

\* The node other threads call trigger, pause, resume and stop on.
Controlled == {"A"}

InitLife ==
    /\ ResourceNodeInit
    /\ MetadataNone
    /\ EvalNone
    /\ PipelineNone([n \in Nodes |-> "node"], {})
    /\ BaseNodeInit([n \in Nodes |-> IF n = "A" THEN <<>> ELSE <<Leaf("A")>>],
                    [n \in Nodes |-> n # "A"])

NextLife ==
    \/ \E n \in LifeNodes : start(n) \/ worker(n)
    \/ \E n \in Controlled : trigger(n) \/ pause(n) \/ resume(n) \/ stop(n)

SpecLife == InitLife /\ [][NextLife]_vars

\* The same program with the thread of A alone started, and the calls of
\* on_exit() recorded.
InitExit ==
    /\ ResourceNodeInit
    /\ MetadataNone
    /\ EvalNone
    /\ PipelineNone([n \in Nodes |-> "node"], {})
    /\ BaseNodeInitObserving(
          [n \in Nodes |-> IF n = "A" THEN <<>> ELSE <<Leaf("A")>>],
          [n \in Nodes |-> n # "A"],
          {"exit"})

NextExit ==
    \/ \E n \in Controlled :
          \/ start(n) \/ worker(n)
          \/ trigger(n) \/ pause(n) \/ resume(n) \/ stop(n)

SpecExit == InitExit /\ [][NextExit]_vars

\* The same threads and calls with B listening to Not(A): B's gate is true
\* while nothing, or a FAILURE, has been received from A.
InitGate ==
    /\ ResourceNodeInit
    /\ MetadataNone
    /\ EvalNone
    /\ PipelineNone([n \in Nodes |-> "node"], {})
    /\ BaseNodeInit([n \in Nodes |-> IF n = "B" THEN <<Not(Leaf("A"))>> ELSE <<>>],
                    [n \in Nodes |-> n # "A"])

SpecGate == InitGate /\ [][NextLife]_vars

\* A is a resource node with the successors B and C (their threads are not
\* started); two other threads call its accessors at any time, from before
\* A.start() on, and others call trigger, pause, resume and stop on it.
NextAccess ==
    \/ start(Store) \/ resource_worker(Store)
    \/ \E t \in Accessors :
          \/ accessor_call(t) \/ accessor_while_init(t)
          \/ accessor_lock(t) \/ accessor_returns(t)
    \/ trigger(Store) \/ pause(Store) \/ resume(Store) \/ stop(Store)

SpecAccess == InitLife /\ [][NextAccess]_vars

\* Two programs. In one A is an artifact store: its own thread (setup, then
\* calls of update_state) and the observer's thread (calls of on_modified).
\* In the other C is a metadata store, A a resource node that listens to it
\* and B a resource node that does not.
InitStore ==
    /\ ResourceNodeInit
    /\ MetadataNone
    /\ EvalNone
    /\ \/ /\ PipelineNone([n \in Nodes |-> IF n = Store THEN "artifact" ELSE "node"],
                          {})
          /\ BaseNodeInit([n \in Nodes |-> <<>>], [n \in Nodes |-> FALSE])
       \/ /\ PipelineNone([n \in Nodes |->
                              IF n = MetadataStore THEN "metadata" ELSE "resource"],
                          {})
          /\ BaseNodeInit([n \in Nodes |->
                              IF n = "A" THEN <<Leaf(MetadataStore)>> ELSE <<>>],
                          [n \in Nodes |-> FALSE])

\* The thread of the artifact store is started.
artifact_start(n) ==
    /\ kind[n] = "artifact"
    /\ start(n)

NextStore ==
    \/ artifact_start(Store) \/ run_init(Store)
    \/ accessor_setup_lock(Store)
    \/ \E present \in SUBSET Files : \E init_state \in {"new", "old"} :
          artifact_setup_returns(Store, present, init_state)
    \/ accessor_setup_raises(Store)
    \/ run_setup_returned(Store) \/ run_setup_raised(Store)
    \/ update_state_load(Store) \/ update_state_dump(Store)
    \/ \E src_path \in Files \cup JsonPaths : on_modified_call(Watcher, src_path)
    \/ accessor_while_init(Watcher) \/ accessor_lock(Watcher)
    \/ on_modified_load(Watcher) \/ on_modified_dump(Watcher)
    \/ metadata_setup \/ start_run \/ end_run
    \/ \E n \in Nodes : \E f \in Files : create_entry(n, f)
    \/ add_run_id \/ add_end_time

SpecStore == InitStore /\ [][NextStore]_vars

\* The same program, with one call of stop() the only change of A's status
\* made from outside and every hook returning (setup() does not raise); each
\* worker is scheduled fairly.
worker_hooks_return(n) ==
    \/ run_init(n) \/ setup_returns(n)
    \/ loop_if_running(n) \/ loop_elif_paused(n) \/ loop_elif_stopping(n)
    \/ on_exit_returns(n) \/ loop_if_exited(n)
    \/ pausable(n)
    \/ \E r \in BOOLEAN : pre_trigger(n, r)
    \/ check_signals(n)
    \/ pre_execution(n)
    \/ \E r \in {"true", "false", "raise"} : execute(n, r)
    \/ on_success(n) \/ on_failure(n) \/ post_execution(n)
    \/ send_signals_put(n) \/ send_signals_returns(n)
    \/ reset_trigger(n)

stop_once(n) == ~stop_called[n] /\ stop(n)

NextStop ==
    \/ \E n \in LifeNodes : start(n) \/ worker_hooks_return(n)
    \/ \E n \in Controlled : trigger(n) \/ stop_once(n)

FairSpecStop ==
    /\ InitLife
    /\ [][NextStop]_vars
    /\ \A n \in LifeNodes : WF_vars(worker_hooks_return(n))

\* A alone, with auto_trigger False and no successor: its status is changed
\* by its worker only, its hooks return, pre_trigger() returns True every time
\* and its gate (no predecessor) passes; trigger() is called at any time. The
\* worker is scheduled fairly.
InitTrigger ==
    /\ ResourceNodeInit
    /\ MetadataNone
    /\ EvalNone
    /\ PipelineNone([n \in Nodes |-> "node"], {})
    /\ BaseNodeInitObserving([n \in Nodes |-> <<>>], [n \in Nodes |-> FALSE],
                             {"trigger"})

worker_ready(n) ==
    \/ run_init(n) \/ setup_returns(n)
    \/ loop_if_running(n) \/ loop_if_exited(n)
    \/ pausable(n)
    \/ pre_trigger(n, TRUE)
    \/ check_signals(n)
    \/ pre_execution(n)
    \/ \E r \in {"true", "false", "raise"} : execute(n, r)
    \/ on_success(n) \/ on_failure(n) \/ post_execution(n)
    \/ send_signals_returns(n)
    \/ reset_trigger(n)

NextTrigger ==
    \/ start("A") \/ worker_ready("A")
    \/ trigger("A")

FairSpecTrigger ==
    /\ InitTrigger
    /\ [][NextTrigger]_vars
    /\ WF_vars(start("A") \/ worker_ready("A"))

\* ----------------------------------------------------------------- Pipeline

\* Pipeline.__init__, lines 42-44: the edges of self.graph, predecessor first.
graph_edges == {<<p, n>> \in Nodes \X Nodes :
                    n \in pipeline_input /\ p \in dependent_nodes[n]}

\* Lines 38-44: the nodes of self.graph (add_edge adds a predecessor that was
\* not given to the constructor).
graph_nodes == pipeline_input \cup {e[1] : e \in graph_edges}

\* self.graph.successors(node)
graph_successors(n) == {m \in graph_nodes : <<n, m>> \in graph_edges}

\* nx.is_directed_acyclic_graph: the graph is acyclic when taking away, again
\* and again, the nodes that no remaining edge enters leaves nothing.
RECURSIVE strip_sources(_, _)
strip_sources(V, E) ==
    LET sources == {v \in V : ~\E e \in E : e[2] = v /\ e[1] \in V}
    IN  IF sources = {} THEN V ELSE strip_sources(V \ sources, E)

\* A plausible slip: only a node listening to itself, or two nodes listening
\* to each other, are taken for a cycle.
no_mutual_dependency ==
    \A e \in graph_edges : <<e[2], e[1]>> \notin graph_edges

is_directed_acyclic_graph == strip_sources(graph_nodes, graph_edges) = {}

\* The sequences nx.topological_sort may return: the orders of the graph's
\* nodes in which every edge goes forward.
topological_sorts ==
    {order \in [1..Cardinality(graph_nodes) -> graph_nodes] :
        /\ \A i, j \in DOMAIN order : order[i] = order[j] => i = j
        /\ \A e \in graph_edges :
              \E i, j \in DOMAIN order : i < j /\ order[i] = e[1] /\ order[j] = e[2]}

\* Pipeline.__init__, lines 34-59. The successors are set on line 48, before
\* the check of line 56; topological_sort raises NetworkXUnfeasible when it
\* meets a cycle.
Pipeline_init ==
    /\ ctl = "new"
    /\ successors' = [n \in Nodes |->
                        IF n \in pipeline_input
                        THEN InOrder(graph_successors(n))
                        ELSE successors[n]]
    /\ IF ~is_directed_acyclic_graph
       THEN /\ pipeline' = "raised"
            /\ pipeline_nodes' = <<>>
            /\ ctl' = "failed"
       ELSE IF topological_sorts = {}
       THEN /\ pipeline' = "unfeasible"
            /\ pipeline_nodes' = <<>>
            /\ ctl' = "failed"
       ELSE /\ pipeline' = "built"
            /\ pipeline_nodes' \in topological_sorts
            /\ ctl' = "built"
    /\ UNCHANGED <<signal_ast, dependent_nodes, auto_trigger, kind, pipeline_input,
                   apartVars, nodeVars, histVars, resVars, ctl_i, back_signals, back_due,
                   start_log, exit_log>>

\* launch_nodes is called.
launch_nodes_begin ==
    /\ ctl = "built"
    /\ ctl' = "launch"
    /\ ctl_i' = 1
    /\ UNCHANGED <<cfgVars, nodeVars, histVars, resVars, pipeline, pipeline_nodes,
                   back_signals, back_due, start_log, exit_log>>

\* launch_nodes, lines 65-67: node.start() for the next node of self.nodes.
launch_nodes_start ==
    /\ ctl = "launch"
    /\ ctl_i <= Len(pipeline_nodes)
    /\ At(pipeline_nodes[ctl_i], "off")
    /\ Goto(pipeline_nodes[ctl_i], "run")
    /\ start_log' = Append(start_log, pipeline_nodes[ctl_i])
    /\ ctl_i' = ctl_i + 1
    /\ UNCHANGED <<cfgVars, status, triggered, waiting, incoming_signals,
                   received_signals, ret, send_i, histVars, resVars, pipeline,
                   pipeline_nodes, ctl, back_signals, back_due, exit_log>>

\* launch_nodes returns.
launch_nodes_end ==
    /\ ctl = "launch"
    /\ ctl_i > Len(pipeline_nodes)
    /\ ctl' = "launched"
    /\ UNCHANGED <<cfgVars, nodeVars, histVars, resVars, pipeline, pipeline_nodes,
                   ctl_i, back_signals, back_due, start_log, exit_log>>

Reverse(seq) == [i \in 1..Len(seq) |-> seq[Len(seq) + 1 - i]]

\* A plausible slip: the nodes are stopped in the order they were started in.
nodes_in_launch_order == pipeline_nodes

\* terminate_nodes, line 77: reversed(self.nodes)
reversed_nodes == Reverse(pipeline_nodes)

\* terminate_nodes is called, after launch_nodes has returned.
terminate_nodes_begin ==
    /\ ctl = "launched"
    /\ ctl' = "terminate"
    /\ ctl_i' = 1
    /\ UNCHANGED <<cfgVars, nodeVars, histVars, resVars, pipeline, pipeline_nodes,
                   back_signals, back_due, start_log, exit_log>>

\* terminate_nodes, line 78: node.exit(), which tells the node to stop: the
\* status becomes STOPPING, as stop() of node.py does.
terminate_nodes_exit ==
    /\ ctl = "terminate"
    /\ ctl_i <= Len(pipeline_nodes)
    /\ status' = [status EXCEPT ![reversed_nodes[ctl_i]] = STOPPING]
    /\ stop_called' = [stop_called EXCEPT ![reversed_nodes[ctl_i]] = TRUE]
    /\ exit_log' = Append(exit_log, reversed_nodes[ctl_i])
    /\ ctl' = "join"
    /\ UNCHANGED <<cfgVars, triggered, waiting, incoming_signals, received_signals,
                   pc, ret, send_i, hook_log, sent_log, obsVars, resVars, pipeline,
                   pipeline_nodes, ctl_i, back_signals, back_due, start_log>>

\* terminate_nodes, line 79: node.join() returns once the node's thread has
\* ended.
terminate_nodes_join ==
    /\ ctl = "join"
    /\ At(reversed_nodes[ctl_i], "done")
    /\ ctl' = "terminate"
    /\ ctl_i' = ctl_i + 1
    /\ UNCHANGED <<cfgVars, nodeVars, histVars, resVars, pipeline, pipeline_nodes,
                   back_signals, back_due, start_log, exit_log>>

\* terminate_nodes returns.
terminate_nodes_end ==
    /\ ctl = "terminate"
    /\ ctl_i > Len(pipeline_nodes)
    /\ ctl' = "terminated"
    /\ UNCHANGED <<cfgVars, nodeVars, histVars, resVars, pipeline, pipeline_nodes,
                   ctl_i, back_signals, back_due, start_log, exit_log>>

controller ==
    \/ Pipeline_init
    \/ launch_nodes_begin \/ launch_nodes_start \/ launch_nodes_end
    \/ terminate_nodes_begin \/ terminate_nodes_exit \/ terminate_nodes_join
    \/ terminate_nodes_end

\* --------------------------------------------------------------- AndAndNode

\* The nodes of a sequence.
Range(seq) == {seq[i] : i \in 1..Len(seq)}

\* AndAndNode.run, lines 27-29: one check_predecessors_signals(): the mailbox
\* is registered, and the answer is True when the latest signal of every
\* predecessor is a SUCCESS; those signals are then used up.
andand_check_predecessors(n) ==
    /\ kind[n] = "andand"
    /\ At(n, "run")
    /\ incoming_signals' = [incoming_signals EXCEPT ![n] = <<>>]
    /\ LET received == drain(incoming_signals[n], received_signals[n])
       IN  IF \A p \in dependent_nodes[n] : received[p] = SUCCESS
           THEN /\ received_signals' =
                      [received_signals EXCEPT ![n] = [m \in Nodes |-> NONE]]
                /\ Goto(n, "signal_successors")
                /\ hook_log' = [hook_log EXCEPT ![n] = <<>>]
           ELSE /\ received_signals' = [received_signals EXCEPT ![n] = received]
                /\ UNCHANGED <<pc, hook_log>>
    /\ UNCHANGED <<outerVars, status, triggered, waiting, ret, send_i, sent_log,
                   stop_called, obsVars>>

\* Line 32: signal_successors(Result.SUCCESS).
andand_signal_successors(n) ==
    /\ kind[n] = "andand"
    /\ At(n, "signal_successors")
    /\ incoming_signals' =
          [m \in Nodes |->
              IF m \in Range(successors[n])
              THEN Append(incoming_signals[m], Message(n, SUCCESS))
              ELSE incoming_signals[m]]
    /\ back_due' = [m \in Nodes |-> IF m \in Range(successors[n]) THEN TRUE ELSE back_due[m]]
    /\ Goto(n, "check_successors")
    /\ hook_log' = [hook_log EXCEPT ![n] = Append(@, "signal_successors")]
    /\ UNCHANGED <<cfgVars, resVars, status, triggered, waiting, received_signals,
                   ret, send_i, sent_log, stop_called, obsVars, pipeline, pipeline_nodes, ctl, ctl_i,
                   back_signals, start_log, exit_log>>

\* A plausible slip: the barrier goes on as soon as one successor has
\* signalled back.
andand_check_any_successor(n) ==
    /\ kind[n] = "andand"
    /\ At(n, "check_successors")
    /\ IF Range(successors[n]) \cap back_signals[n] # {}
       THEN /\ back_signals' = [back_signals EXCEPT ![n] = {}]
            /\ Goto(n, "signal_predecessors")
       ELSE UNCHANGED <<back_signals, pc>>
    /\ UNCHANGED <<cfgVars, resVars, status, triggered, waiting, incoming_signals,
                   received_signals, ret, send_i, histVars, pipeline, pipeline_nodes,
                   ctl, ctl_i, back_due, start_log, exit_log>>

\* Lines 36-37: one check_successors_signals(): True when every successor has
\* signalled SUCCESS back; those signals are then used up.
andand_check_successors(n) ==
    /\ kind[n] = "andand"
    /\ At(n, "check_successors")
    /\ IF Range(successors[n]) \subseteq back_signals[n]
       THEN /\ back_signals' = [back_signals EXCEPT ![n] = {}]
            /\ Goto(n, "signal_predecessors")
       ELSE UNCHANGED <<back_signals, pc>>
    /\ UNCHANGED <<cfgVars, resVars, status, triggered, waiting, incoming_signals,
                   received_signals, ret, send_i, histVars, pipeline, pipeline_nodes,
                   ctl, ctl_i, back_due, start_log, exit_log>>

\* Line 40: signal_predecessors(Result.SUCCESS), and the loop starts again.
andand_signal_predecessors(n) ==
    /\ kind[n] = "andand"
    /\ At(n, "signal_predecessors")
    /\ back_signals' =
          [m \in Nodes |->
              IF m \in dependent_nodes[n] THEN back_signals[m] \cup {n}
              ELSE back_signals[m]]
    /\ Goto(n, "run")
    /\ hook_log' = [hook_log EXCEPT ![n] = Append(@, "signal_predecessors")]
    /\ UNCHANGED <<cfgVars, resVars, status, triggered, waiting, incoming_signals,
                   received_signals, ret, send_i, sent_log, stop_called, obsVars,
                   pipeline, pipeline_nodes,
                   ctl, ctl_i, back_due, start_log, exit_log>>

\* A successor of a barrier signals SUCCESS back to it, once, at the end of
\* the execute phase that the barrier's signal has set off.
signal_back(n) ==
    /\ kind[n] = "node"
    /\ At(n, "reset_trigger")
    /\ ret[n] = "true"
    /\ back_due[n]
    /\ \A i \in 1..Len(incoming_signals[n]) :
          kind[incoming_signals[n][i].sender] # "andand"
    /\ back_due' = [back_due EXCEPT ![n] = FALSE]
    /\ back_signals' =
          [m \in Nodes |->
              IF m \in dependent_nodes[n] /\ kind[m] = "andand"
              THEN back_signals[m] \cup {n}
              ELSE back_signals[m]]
    /\ UNCHANGED <<cfgVars, resVars, nodeVars, histVars, pipeline, pipeline_nodes,
                   ctl, ctl_i, start_log, exit_log>>

andand(n) ==
    \/ andand_check_predecessors(n) \/ andand_signal_successors(n)
    \/ andand_check_successors(n) \/ andand_signal_predecessors(n)

\* ------------------------------------------------- pipelines, launched and
\* terminated

\* Two programs: the pipeline A -> B -> C with B an AndAndNode, and the
\* pipeline A -> B of two BaseNodes (C is no node of it). Every node triggers
\* itself; the hooks return.
InitPipe ==
    /\ ResourceNodeInit
    /\ MetadataNone
    /\ EvalNone
    /\ \/ /\ BaseNodeInit([n \in Nodes |->
                             CASE n = "A" -> <<>>
                               [] n = "B" -> <<Leaf("A")>>
                               [] OTHER -> <<Leaf("B")>>],
                          [n \in Nodes |-> TRUE])
          /\ PipelineNone([n \in Nodes |-> IF n = "B" THEN "andand" ELSE "node"],
                          Nodes)
       \/ /\ BaseNodeInit([n \in Nodes |-> IF n = "B" THEN <<Leaf("A")>> ELSE <<>>],
                          [n \in Nodes |-> TRUE])
          /\ PipelineNone([n \in Nodes |-> "node"], {"A", "B"})

\* Two programs with the AndAndNode B: A -> B -> C, and A <- B -> C (no
\* predecessor, two successors).
InitBarrier ==
    /\ ResourceNodeInit
    /\ MetadataNone
    /\ EvalNone
    /\ PipelineNone([n \in Nodes |-> IF n = "B" THEN "andand" ELSE "node"], Nodes)
    /\ \/ BaseNodeInit([n \in Nodes |->
                            CASE n = "A" -> <<>>
                              [] n = "B" -> <<Leaf("A")>>
                              [] OTHER -> <<Leaf("B")>>],
                        [n \in Nodes |-> TRUE])
       \/ BaseNodeInit([n \in Nodes |-> IF n = "B" THEN <<>> ELSE <<Leaf("B")>>],
                        [n \in Nodes |-> TRUE])

\* One step of the thread of node n.
node_thread(n) ==
    \/ kind[n] = "node" /\ worker_hooks_return(n)
    \/ andand(n)
    \/ signal_back(n)

NextPipe ==
    \/ controller
    \/ \E n \in Nodes : node_thread(n)

SpecPipe == InitPipe /\ [][NextPipe]_vars

\* The worker of a node whose hooks return and whose status no other thread
\* changes.
worker_undisturbed(n) ==
    \/ run_init(n) \/ setup_returns(n)
    \/ loop_if_running(n) \/ loop_if_exited(n)
    \/ pausable(n)
    \/ \E r \in BOOLEAN : pre_trigger(n, r)
    \/ check_signals(n)
    \/ pre_execution(n)
    \/ \E r \in {"true", "false", "raise"} : execute(n, r)
    \/ on_success(n) \/ on_failure(n) \/ post_execution(n)
    \/ send_signals_put(n) \/ send_signals_returns(n)
    \/ reset_trigger(n)

\* The pipeline is constructed and launched, and runs.
NextBarrier ==
    \/ Pipeline_init \/ launch_nodes_begin \/ launch_nodes_start \/ launch_nodes_end
    \/ \E n \in Nodes :
          \/ kind[n] = "node" /\ worker_undisturbed(n)
          \/ andand(n)
          \/ signal_back(n)

SpecBarrier == InitBarrier /\ [][NextBarrier]_vars

\* C listens to A and B (the default AND of the two). Of the threads of A
\* and B only the puts into C's mailbox are followed.
JoinSenders == {"A", "B"}

InitJoin ==
    /\ ResourceNodeInit
    /\ MetadataNone
    /\ EvalNone
    /\ PipelineNone([n \in Nodes |-> "node"], {})
    /\ BaseNodeInitObserving(
          [n \in Nodes |-> IF n = "C" THEN <<Leaf("A"), Leaf("B")>> ELSE <<>>],
          [n \in Nodes |-> TRUE],
          {"lead"})

\* send_signals, line 257, run by the thread of the predecessor n of m at the
\* end of a phase of n: one put of a message with the status st. The sender
\* is kept at most MaxLead SUCCESS messages ahead of the phases of m.
predecessor_put(n, m, st) ==
    /\ Len(incoming_signals[m]) < MaxQueue
    /\ st = SUCCESS => lead[m][n] < MaxLead
    /\ incoming_signals' = [incoming_signals EXCEPT ![m] = Append(@, Message(n, st))]
    /\ lead' = [lead EXCEPT ![m][n] = IF st = SUCCESS THEN @ + 1 ELSE @]
    /\ UNCHANGED <<outerVars, status, triggered, waiting, received_signals, pc,
                   ret, send_i, hook_log, sent_log, stop_called, setup_failed,
                   trigger_credit, observed, on_exit_called, trigger_pending>>

\* The worker of a node that has no successor, whose hooks return and whose
\* status no other thread changes.
worker_sink(n) ==
    \/ run_init(n) \/ setup_returns(n)
    \/ loop_if_running(n) \/ loop_if_exited(n)
    \/ pausable(n)
    \/ \E r \in BOOLEAN : pre_trigger(n, r)
    \/ check_signals(n)
    \/ pre_execution(n)
    \/ \E r \in {"true", "false", "raise"} : execute(n, r)
    \/ on_success(n) \/ on_failure(n) \/ post_execution(n)
    \/ send_signals_returns(n)
    \/ reset_trigger(n)

NextJoin ==
    \/ start("C") \/ worker_sink("C")
    \/ \E n \in JoinSenders : \E st \in {SUCCESS, FAILURE} :
          predecessor_put(n, "C", st)

SpecJoin == InitJoin /\ [][NextJoin]_vars

\* The controlling thread goes on once terminate_nodes has been called, and
\* every node's thread is scheduled fairly.
FairSpecPipe ==
    /\ SpecPipe
    /\ WF_vars(terminate_nodes_exit \/ terminate_nodes_join \/ terminate_nodes_end)
    /\ \A n \in Nodes : WF_vars(node_thread(n))

\* ------------------------------------------------------ Pipeline.__init__

\* The constructor called with any non-empty set of nodes, each listening to
\* any set of nodes (a node may be given its predecessors after it has been
\* constructed: cycles are possible).
InitBuild ==
    /\ ResourceNodeInit
    /\ MetadataNone
    /\ EvalNone
    /\ \E preds \in [Nodes -> SUBSET Nodes] :
          BaseNodeInit([n \in Nodes |-> [i \in 1..Len(InOrder(preds[n])) |->
                                            Leaf(InOrder(preds[n])[i])]],
                       [n \in Nodes |-> TRUE])
    /\ \E input \in SUBSET Nodes \ {{}} :
          PipelineNone([n \in Nodes |-> "node"], input)

SpecBuild == InitBuild /\ [][Pipeline_init]_vars

\* ------------------------------------------------------ SignalAST.evaluate

\* Any of the expressions is evaluated once on any received map.
InitEval ==
    /\ ResourceNodeInit
    /\ MetadataNone
    /\ PipelineNone([n \in Nodes |-> "node"], {})
    /\ BaseNodeInit([n \in Nodes |-> <<>>], [n \in Nodes |-> TRUE])
    /\ EvalInput

SpecEval == InitEval /\ [][evaluate_call]_vars

\* ================================================================== claims

\* C1: the body of a method guarded by await_references never runs while the
\* body of an externally accessible method runs on the same node, nor while
\* reference_count is above 0.
C1_NoMutationWhileRead ==
    mutator_pc = "body" =>
        /\ \A s \in Readers : reader_pc[s] # "body"
        /\ reference_count = 0

\* C2: with each of the two successors calling a reader method once, the
\* mutator's body does not start before both calls have returned: once both
\* calls have been made, the body runs only with both of them over.
C2_MutatorAfterBothReaders ==
    ((\A s \in Readers : reader_calls[s] = 1) /\ mutator_pc = "body") =>
        \A s \in Readers : reader_pc[s] = "idle"

\* The transitions of the lifecycle table.
LegalTransitions ==
    {<<OFF, INIT>>, <<INIT, RUNNING>>, <<INIT, ERROR>>, <<RUNNING, PAUSED>>,
     <<PAUSED, RUNNING>>, <<RUNNING, STOPPING>>, <<PAUSED, STOPPING>>,
     <<STOPPING, EXITED>>}

\* C3: every change of a node's status is one of the transitions of the
\* lifecycle table (OFF->INIT, INIT->RUNNING, INIT->ERROR, RUNNING<->PAUSED,
\* RUNNING->STOPPING, PAUSED->STOPPING, STOPPING->EXITED).
C3_OnlyLegalTransitions ==
    [][\A n \in Nodes :
          status'[n] # status[n] => <<status[n], status'[n]>> \in LegalTransitions]_vars

\* C4: once stop() has been called on a started node, the worker eventually
\* sets the status to EXITED and its thread ends (hooks return, the worker is
\* scheduled fairly).
C4_StopLeadsToExit ==
    \A n \in Controlled :
        stop_called[n] ~> (status[n] = EXITED /\ At(n, "done"))

\* C5: once terminate_nodes has been called on a launched pipeline, the call
\* eventually returns with every node of the pipeline, barrier nodes too, out
\* of its run loop and EXITED (hooks return, every thread is scheduled
\* fairly, execute() may fail at every iteration).
C5_TerminateReturns ==
    (ctl = "terminate") ~>
        (/\ ctl = "terminated"
         /\ \A n \in Range(pipeline_nodes) : At(n, "done") /\ status[n] = EXITED)

\* The position of node n in a sequence without repetition (0: not in it).
IndexIn(seq, n) == IF \E i \in 1..Len(seq) : seq[i] = n
                   THEN CHOOSE i \in 1..Len(seq) : seq[i] = n
                   ELSE 0

\* C6: launch starts each node once, after all of its predecessors;
\* terminate tells the nodes to stop in the reverse of the order they were
\* started in, and joins each before telling the next: a node is told to stop
\* only with every one of its successors terminated.
C6_LaunchAndTerminateOrder ==
    /\ \A i, j \in 1..Len(start_log) : start_log[i] = start_log[j] => i = j
    /\ \A i \in 1..Len(start_log) :
          \A p \in dependent_nodes[start_log[i]] :
              \E j \in 1..(i - 1) : start_log[j] = p
    /\ \A i \in 1..Len(exit_log) :
          /\ Len(start_log) = Len(pipeline_nodes)
          /\ exit_log[i] = start_log[Len(start_log) + 1 - i]
          /\ i < Len(exit_log) => At(exit_log[i], "done")
          /\ \A m \in Nodes :
                exit_log[i] \in dependent_nodes[m] /\ m \in Range(pipeline_nodes)
                    => IndexIn(exit_log, m) \in 1..(i - 1)

\* C6's case: a pipeline of a node and its successor has been launched and
\* terminated, the successor first.
C6_Witness ==
    /\ ctl = "terminated"
    /\ start_log = <<"A", "B">>
    /\ exit_log = <<"B", "A">>

\* The nodes a node reaches along the predecessor relation of the nodes given
\* to the constructor, in at most k steps.
RECURSIVE ReachedFrom(_, _)
ReachedFrom(S, k) ==
    IF k = 0 THEN S
    ELSE ReachedFrom(S \cup {m \in Nodes : \E n \in S : <<n, m>> \in graph_edges},
                     k - 1)

\* The predecessor relation has a cycle: some node reaches itself.
HasCycle ==
    \E n \in Nodes :
        \E m \in Nodes :
            /\ <<n, m>> \in graph_edges
            /\ n \in ReachedFrom({m}, Cardinality(Nodes))

\* C7: the constructor raises InvalidNodeDependencyError, and there is no
\* pipeline, exactly when the predecessor relation of the nodes has a cycle;
\* without a cycle the pipeline is built, its nodes in an order that puts
\* every predecessor first.
C7_CycleRejected ==
    ctl # "new" =>
        /\ HasCycle => pipeline = "raised" /\ pipeline_nodes = <<>>
        /\ ~HasCycle =>
              /\ pipeline = "built"
              /\ Range(pipeline_nodes) = graph_nodes
              /\ \A n \in graph_nodes : \A q \in dependent_nodes[n] :
                    n \in pipeline_input =>
                        IndexIn(pipeline_nodes, q) < IndexIn(pipeline_nodes, n)

\* C7's case: the constructor has been called with A listening to C, B to A
\* and C to B, and has raised.
C7_Witness ==
    /\ pipeline = "raised"
    /\ pipeline_input = Nodes
    /\ dependent_nodes = [n \in Nodes |->
                            CASE n = "A" -> {"C"} [] n = "B" -> {"A"} [] OTHER -> {"B"}]

\* The hooks of an execute phase, in order, for what execute() did.
PhaseHooks(r) ==
    IF r = "true"
    THEN <<"pre_execution", "execute", "on_success", "post_execution", "send_signals">>
    ELSE <<"pre_execution", "execute", "on_failure", "post_execution", "send_signals">>

IsPrefix(s, t) == Len(s) <= Len(t) /\ \A i \in 1..Len(s) : s[i] = t[i]

\* The places of the worker from the call of pre_execution to reset_trigger.
InExecutePhase(n) ==
    \/ pc[n][2] \in {"pre_execution", "execute", "on_success", "on_failure",
                     "post_execution", "send_signals"}
    \/ At(n, "reset_trigger")

\* The successors of n, as a set.
SuccessorSet(n) == {successors[n][i] : i \in 1..Len(successors[n])}

C8_PhaseOrder ==
    \A n \in Nodes :
        /\ InExecutePhase(n) =>
              \/ ret[n] = "none" /\ IsPrefix(hook_log[n], <<"pre_execution", "execute">>)
              \/ ret[n] # "none" /\ IsPrefix(hook_log[n], PhaseHooks(ret[n]))
        /\ At(n, "reset_trigger") =>
              /\ hook_log[n] = PhaseHooks(ret[n])
              /\ \A m \in SuccessorSet(n) :
                    sent_log[n][m] =
                        <<Message(n, IF ret[n] = "true" THEN SUCCESS ELSE FAILURE)>>

C8_RaiseContained ==
    \A n \in Nodes :
        (InHook(n, "execute") /\ ret'[n] = "raise") =>
            /\ status'[n] = status[n]
            /\ pc'[n] = <<"wait", "on_failure">>

C8_PhaseLeadsOn ==
    \A n \in Nodes :
        (At(n, "reset_trigger") /\ ~At(n, "reset_trigger")') =>
            /\ pc'[n] = <<"at", "if_exited">>
            /\ status'[n] = status[n]

\* C8: an execute phase runs pre_execution, execute, then on_success (execute
\* returned true) or on_failure (it returned false or raised), then
\* post_execution, then emits SUCCESS or FAILURE to every successor; a raise
\* of execute() leaves the status alone and the worker in its loop.
C8_ExecutePhase ==
    /\ []C8_PhaseOrder
    /\ [][C8_RaiseContained /\ C8_PhaseLeadsOn]_vars

\* C8's case: a phase in which execute() raised has run to its end.
C8_Witness ==
    \E n \in Nodes :
        /\ At(n, "reset_trigger")
        /\ ret[n] = "raise"
        /\ Len(successors[n]) > 0

C9_PutFrame ==
    \A n \in Nodes :
        (InHook(n, "send_signals") /\ send_i'[n] = send_i[n] + 1) =>
            /\ \E s \in SuccessorSet(n) :
                  /\ incoming_signals'[s] =
                        Append(incoming_signals[s],
                               Message(n, IF ret[n] = "true" THEN SUCCESS ELSE FAILURE))
                  /\ \A m \in Nodes \ {s} : incoming_signals'[m] = incoming_signals[m]
            /\ received_signals' = received_signals

C9_OnePerSuccessor ==
    \A n \in Nodes :
        At(n, "reset_trigger") =>
            \A m \in Nodes :
                sent_log[n][m] =
                    IF m \in SuccessorSet(n)
                    THEN <<Message(n, IF ret[n] = "true" THEN SUCCESS ELSE FAILURE)>>
                    ELSE <<>>

\* C9: an emission puts exactly one message, with the emitter's name and the
\* outcome of the phase, into the mailbox of every successor, and changes no
\* other mailbox and no received map.
C9_Emission ==
    /\ []C9_OnePerSuccessor
    /\ [][C9_PutFrame]_vars

\* C9's case: an emission of FAILURE to two successors is over, and a message
\* of it is still in a mailbox.
C9_Witness ==
    \E n \in Nodes :
        /\ At(n, "reset_trigger")
        /\ ret[n] = "false"
        /\ Len(successors[n]) = 2
        /\ \E m \in SuccessorSet(n) :
              \E i \in 1..Len(incoming_signals[m]) :
                  incoming_signals[m][i] = Message(n, FAILURE)

\* C10: a node with predecessors is in an execute phase only with its gate
\* true of its received map; with the gate a single predecessor a, the latest
\* message received from a is a SUCCESS.
C10_GateHolds ==
    \A n \in Nodes :
        (dependent_nodes[n] # {} /\ InExecutePhase(n)) =>
            /\ evaluate(signal_ast[n], received_signals[n])
            /\ \A a \in Nodes :
                  signal_ast[n] = And(<<Leaf(a)>>) => received_signals[n][a] = SUCCESS

\* C10's case: B, whose gate is A, has drained a FAILURE of A, found its gate
\* false and gone back to the top of its loop.
C10_Witness ==
    /\ received_signals["B"]["A"] = FAILURE
    /\ incoming_signals["B"] = <<>>
    /\ At("B", "loop")
    /\ waiting["B"]

\* C11: when check_signals returns, the worker goes on to pre_execution
\* exactly when the node has no predecessor or its gate is true of the
\* received map with the mailbox drained into it, whether or not a message
\* was waiting (so with the gate Not(A) and nothing received from A).
C11_GateDecision ==
    [][\A n \in Nodes :
          (InHook(n, "check_signals") /\ pc'[n] # pc[n]) =>
              (pc'[n] = <<"wait", "pre_execution">>
                  <=> \/ dependent_nodes[n] = {}
                      \/ evaluate(signal_ast[n],
                                  drain(incoming_signals[n], received_signals[n])))]_vars

\* Whether a message of node n is in a mailbox or a received map.
HasEmitted(n) ==
    \E m \in Nodes :
        \/ received_signals[m][n] # NONE
        \/ \E i \in 1..Len(incoming_signals[m]) : incoming_signals[m][i].sender = n

\* Whether the gate of node m has node n among the parameters of its And.
GateRequires(m, n) ==
    \E i \in 1..Len(signal_ast[m].parameters) : signal_ast[m].parameters[i] = Leaf(n)

C12_AfterSetupRaised ==
    \A n \in Nodes :
        setup_failed[n] =>
            /\ At(n, "done")
            /\ hook_log[n] = <<>>
            /\ ~HasEmitted(n)
            /\ \A m \in Nodes :
                  GateRequires(m, n) => ~InExecutePhase(m)

C12_SetupRaises ==
    \A n \in Nodes :
        (~setup_failed[n] /\ setup_failed'[n]) =>
            /\ status'[n] = ERROR
            /\ \A m \in Nodes \ {n} : status'[m] = status[m] /\ pc'[m] = pc[m]

\* C12: a raise of setup() sets the status to ERROR and ends the worker,
\* which runs no hook and puts no message into any mailbox, then or later;
\* the other workers are left as they are, and a node whose gate requires a
\* SUCCESS of the failed node is never in an execute phase.
C12_SetupError ==
    /\ []C12_AfterSetupRaised
    /\ [][C12_SetupRaises]_vars

\* C12's case: A's setup() has raised; B, which listens to A, runs and waits.
C12_Witness ==
    /\ setup_failed["A"]
    /\ status["A"] = ERROR
    /\ status["B"] = RUNNING
    /\ At("B", "loop")
    /\ waiting["B"]

\* C13: when the worker leaves on_exit(), whether on_exit() returned or
\* raised, the status becomes EXITED and the worker goes on to the test that
\* ends its loop.
C13_OnExitRaiseStillExits ==
    [][\A n \in Nodes :
          (At(n, "on_exit") /\ pc'[n] # pc[n]) =>
              /\ status'[n] = EXITED
              /\ pc'[n] = <<"at", "if_exited">>]_vars

\* The emissions of one pass of the barrier's loop, in order.
BarrierRound == <<"signal_successors", "signal_predecessors">>

C14_RoundOrder ==
    \A n \in Nodes :
        kind[n] = "andand" =>
            /\ IsPrefix(hook_log[n], BarrierRound)
            /\ (At(n, "off") \/ At(n, "run") \/ At(n, "signal_successors"))
                  => back_signals[n] = {}

C14_Emissions ==
    \A n \in Nodes :
        kind[n] = "andand" =>
            \* a pass begins only with the pass before complete, and only
            \* with a SUCCESS the latest signal of every predecessor
            /\ (pc'[n] = <<"at", "signal_successors">> /\ pc[n] # pc'[n]) =>
                  /\ hook_log[n] \in {<<>>, BarrierRound}
                  /\ hook_log'[n] = <<>>
                  /\ \A p \in dependent_nodes[n] :
                        drain(incoming_signals[n], received_signals[n])[p] = SUCCESS
            \* fan-out: one SUCCESS into the mailbox of every successor
            /\ hook_log'[n] = <<"signal_successors">> =>
                  /\ hook_log[n] \in {<<>>, <<"signal_successors">>}
                  /\ hook_log[n] = <<>> =>
                        \A m \in Range(successors[n]) :
                            incoming_signals'[m] =
                                Append(incoming_signals[m], Message(n, SUCCESS))
            \* release: only with every successor having signalled back
            \* since the fan-out, and to every predecessor
            /\ (hook_log'[n] = BarrierRound /\ hook_log[n] # BarrierRound) =>
                  /\ hook_log[n] = <<"signal_successors">>
                  /\ At(n, "signal_predecessors")
                  /\ \A p \in dependent_nodes[n] : n \in back_signals'[p]
            /\ pc'[n] = <<"at", "signal_predecessors">> /\ pc[n] # pc'[n] =>
                  /\ hook_log[n] = <<"signal_successors">>
                  /\ Range(successors[n]) \subseteq back_signals[n]

RECURSIVE Holds(_, _)
Holds(t, received) ==
    CASE t.operation = "NODE" -> received[t.name] = SUCCESS
      [] t.operation = "AND" ->
            \A i \in 1..Len(t.parameters) : Holds(t.parameters[i], received)
      [] t.operation = "OR" ->
            \E i \in 1..Len(t.parameters) : Holds(t.parameters[i], received)
      [] t.operation = "NOT" -> ~Holds(t.parameters[1], received)

\* The expressions And, Or and Not build from nodes.
RECURSIVE IsAndOrNot(_)
IsAndOrNot(t) ==
    \/ t.operation = "NODE"
    \/ /\ t.operation \in {"AND", "OR", "NOT"}
       /\ t.operation = "NOT" => Len(t.parameters) = 1
       /\ \A i \in 1..Len(t.parameters) : IsAndOrNot(t.parameters[i])

\* C15: on an expression of And, Or, Not and nodes, evaluate returns the
\* value of the reference semantics: a node is true iff the latest message
\* received from it is a SUCCESS, And is the conjunction (true of no
\* parameter), Or the disjunction (false of none), Not the complement.
C15_EvaluateAgrees ==
    (eval_result # "none" /\ IsAndOrNot(eval_ast)) =>
        eval_result = IF Holds(eval_ast, eval_received) THEN "true" ELSE "false"

\* C15's case: And(A, Or(B, Not(C))) has been evaluated to true with a
\* SUCCESS of A and a FAILURE of B and of C.
C15_Witness ==
    /\ eval_ast = And(<<Leaf("A"), Or(<<Leaf("B"), Not(Leaf("C"))>>)>>)
    /\ eval_received = [n \in Nodes |-> IF n = "A" THEN SUCCESS ELSE FAILURE]
    /\ eval_result = "true"

\* The value of a parameter of an expression that is a node or an
\* expression of And, Or and Not.
ParameterHolds(t, i, received) == Holds(t.parameters[i], received)

\* C16: an XOr of one or more parameters evaluates to true iff an odd number
\* of its parameters are true.
C16_XOrIsParity ==
    (/\ eval_result # "none"
     /\ eval_ast.operation = "XOR"
     /\ Len(eval_ast.parameters) >= 1
     /\ \A i \in 1..Len(eval_ast.parameters) : IsAndOrNot(eval_ast.parameters[i]))
        => (eval_result = "true" <=>
               Cardinality({i \in 1..Len(eval_ast.parameters) :
                               ParameterHolds(eval_ast, i, eval_received)}) % 2 = 1)

\* C17: the evaluation of an expression that could be constructed returns a
\* boolean, it never raises.
C17_EvaluateNeverRaises == eval_result \in {"none", "true", "false"}

\* C18: no pausable hook begins while the status is PAUSED: the step that
\* enters a hook is taken with a status other than PAUSED.
C18_NoHookBeginsPaused ==
    [][\A n \in Nodes :
          (pc[n][1] # "in" /\ pc'[n][1] = "in") => status[n] # PAUSED]_vars

C19_PhaseCompletes ==
    \A n \in Nodes :
        (stop_called[n] /\ At(n, "reset_trigger")) =>
            /\ hook_log[n] = PhaseHooks(ret[n])
            /\ \A m \in SuccessorSet(n) :
                  sent_log[n][m] =
                      <<Message(n, IF ret[n] = "true" THEN SUCCESS ELSE FAILURE)>>

C19_NoAbort ==
    \A n \in Nodes :
        /\ (InExecutePhase(n) /\ pc'[n] # pc[n]) =>
              \/ InExecutePhase(n)'
              \/ At(n, "reset_trigger") /\ pc'[n] = <<"at", "if_exited">>
        /\ (pc'[n] = <<"at", "on_exit">> /\ pc'[n] # pc[n]) =>
              At(n, "elif_stopping")

\* C19: a worker inside an execute phase leaves it only at its end, whatever
\* its status: with stop() called during the phase the remaining hooks run,
\* every successor is sent the phase's message, and on_exit() is called only
\* from the worker's loop afterwards.
C19_StopCompletesPhase ==
    /\ []C19_PhaseCompletes
    /\ [][C19_NoAbort]_vars

\* C19's case: a phase has run to its end with the status STOPPING, its
\* message sent.
C19_Witness ==
    \E n \in Nodes :
        /\ stop_called[n]
        /\ status[n] = STOPPING
        /\ At(n, "reset_trigger")
        /\ \E m \in SuccessorSet(n) : sent_log[n][m] # <<>>

C20_FlagAndCredit ==
    \A n \in Nodes :
        /\ ~auto_trigger[n] => trigger_credit[n] >= 0
        /\ auto_trigger[n] => triggered[n]

C20_FlagCleared ==
    \A n \in Nodes :
        (At(n, "reset_trigger") /\ pc'[n] # pc[n] /\ ~auto_trigger[n]) =>
            ~triggered'[n]

\* C20: a node with auto_trigger false has begun no more execute phases than
\* trigger() has been called, its flag being cleared at the end of every
\* phase; a node with auto_trigger true always has its flag set.
C20_TriggerGate ==
    /\ []C20_FlagAndCredit
    /\ [][C20_FlagCleared]_vars

\* C20's case: a node with auto_trigger false has run a phase and its flag is
\* clear again.
C20_Witness ==
    \E n \in Nodes :
        /\ ~auto_trigger[n]
        /\ ~triggered[n]
        /\ trigger_credit[n] = 0
        /\ HasEmitted(n)

\* C21: the bodies of the resource accessors of one resource node never run
\* in two threads at the same time, and the body of an accessor other than
\* setup never runs before the body of the node's setup() has completed,
\* whenever the accessor is called.
C21_AccessorExclusionAfterSetup ==
    /\ Cardinality(InAccessorBody) <= 1
    /\ \A t \in Accessors : accessor_pc[t] = "body" => setup_done

\* The status of the message of sender s that is last in the queue.
LastFrom(queue, s) ==
    queue[CHOOSE i \in 1..Len(queue) :
              /\ queue[i].sender = s
              /\ \A j \in (i + 1)..Len(queue) : queue[j].sender # s].status

SendersIn(queue) == {queue[i].sender : i \in 1..Len(queue)}

\* C22: after every drain of a node's mailbox, received[s] is the message s
\* sent last among those drained (the queue is in the order of sending), and
\* the entry of a sender with no message in the drained queue is unchanged;
\* check_signals drains whatever it finds in the mailbox of a node that has
\* predecessors.
C22_DrainKeepsLatest ==
    [][\A n \in Nodes :
          /\ (InHook(n, "check_signals") /\ pc'[n] # pc[n]
                  /\ dependent_nodes[n] # {})
                => incoming_signals'[n] = <<>>
          /\ (incoming_signals[n] # <<>> /\ incoming_signals'[n] = <<>>)
                => \A s \in Nodes :
                      received_signals'[n][s] =
                          IF s \in SendersIn(incoming_signals[n])
                          THEN LastFrom(incoming_signals[n], s)
                          ELSE received_signals[n][s]]_vars

\* C has drained a SUCCESS and then a FAILURE of A (A is a SUCCESS ahead and
\* its entry is FAILURE) and has kept the SUCCESS it had from B.
C22_Witness ==
    /\ incoming_signals["C"] = <<>>
    /\ received_signals["C"]["A"] = FAILURE
    /\ lead["C"]["A"] >= 1
    /\ received_signals["C"]["B"] = SUCCESS
    /\ waiting["C"]

\* The reader threads that are inside an externally accessible method: past
\* the increment and not yet past the decrement or the end of the call.
ReadersInside == {s \in Readers : reader_pc[s] \in {"body", "exit"}}

\* C23: reference_count is the number of calls of externally accessible
\* methods that have entered and not yet ended (so it is never negative and
\* is zero when no reader is inside), and the event is set at every decrement
\* that brings the count to zero.
C23_CountIsReadersInside ==
    /\ [](reference_count = Cardinality(ReadersInside))
    /\ [][(reference_count' = reference_count - 1 /\ reference_count' = 0)
             => event']_vars

\* The place of a state on the way new -> current -> old.
StateRank(st) == CASE st = "new" -> 1 [] st = "current" -> 2 [] OTHER -> 3

\* C24, the artifact store: the list one call of update_state writes has the
\* entries of the list it loaded, with every current entry old, every new
\* entry current (none old) and every old entry old, so that none is new.
C24_UpdateState ==
    [][(pc[Store] = <<"in", "update_state">> /\ pc'[Store] # pc[Store])
          => /\ Len(data_store') = Len(json_data[Store])
             /\ \A i \in 1..Len(json_data[Store]) :
                   /\ data_store'[i].filepath = json_data[Store][i].filepath
                   /\ data_store'[i].state =
                         CASE json_data[Store][i].state = "new" -> "current"
                           [] json_data[Store][i].state = "current" -> "old"
                           [] OTHER -> "old"]_vars

\* C24, the metadata store: no call removes a row or moves its state back;
\* a row's state becomes current only when the row had no run yet (and it is
\* bound to the open run), and becomes old only when the row belonged to the
\* open run.
C24_MetadataStore ==
    [][/\ Len(samples') >= Len(samples)
       /\ \A i \in 1..Len(samples) :
             /\ StateRank(samples'[i].state) >= StateRank(samples[i].state)
             /\ (samples'[i].state # samples[i].state
                     /\ samples'[i].state = "current")
                   => /\ samples[i].run_id = 0
                      /\ samples'[i].run_id = get_run_id
             /\ (samples'[i].state # samples[i].state
                     /\ samples'[i].state = "old")
                   => /\ open_runs # {}
                      /\ samples[i].run_id = get_run_id
                      /\ samples'[i].run_id = samples[i].run_id]_vars

C25_PhaseFollowsDrain ==
    [][\A n \in Nodes :
          (dependent_nodes[n] # {} /\ pc'[n] = <<"wait", "pre_execution">>
                /\ pc'[n] # pc[n])
             => /\ InHook(n, "check_signals")
                /\ incoming_signals[n] # <<>>
                /\ incoming_signals'[n] = <<>>]_vars

\* B has drained a SUCCESS of A and begun a phase on it.
C25_Witness ==
    /\ pc["B"] = <<"wait", "pre_execution">>
    /\ incoming_signals["B"] = <<>>
    /\ received_signals["B"]["A"] = SUCCESS

\* C26: a node whose gate is the default AND over A and B has never begun
\* more execute phases than A has emitted SUCCESS messages, nor more than B
\* has: no phase is begun on a signal that an earlier phase has consumed.
C26_PhasesWithinSignals ==
    \A n \in Nodes : \A m \in dependent_nodes[n] : lead[n][m] >= 0

\* C27: no call of trigger() is lost: on a RUNNING node with auto_trigger
\* False whose pre_trigger() and gate keep passing, every call, wherever the
\* worker is in its loop, is followed by an execute phase that begins after
\* the call.
C27_NoTriggerLost ==
    trigger_pending["A"] ~> ~trigger_pending["A"]

\* C28: run calls on_exit() at most once in the life of a node, whatever
\* pause(), resume() and stop() are called, and once on_exit() has returned
\* and the worker has set the status to EXITED, the next thing its loop does
\* is to end.
C28_OnExitOnce ==
    /\ [][\A n \in Nodes :
             (pc'[n] = <<"at", "on_exit">> /\ pc'[n] # pc[n])
                => ~on_exit_called[n]]_vars
    /\ [][\A n \in Nodes :
             (on_exit_called[n] /\ At(n, "if_exited") /\ pc'[n] # pc[n])
                => pc'[n] = <<"at", "done">>]_vars

\* C29: a method guarded by await_references does not block for ever when
\* the resource is free: the node does not stay in event.wait() for ever with
\* no externally accessible call in progress from some point on (whether no
\* reader was ever called, or a reader call ended by raising).
C29_MutatorStarts ==
    []<>(mutator_pc # "wait" \/ \E s \in Readers : reader_pc[s] # "idle")

\* The state recorded in the file for a path.
StateOf(files, path) ==
    files[CHOOSE i \in 1..Len(files) : files[i].filepath = path].state

\* C30: under every interleaving of on_modified (the observer's thread) with
\* update_state (the node's thread), an entry recorded in data_store.json
\* stays in it, no path is recorded twice, and a write of on_modified does not
\* take the state of an entry back.
C30_NoLostUpdate ==
    /\ [][\A f \in logged_files(data_store) : f \in logged_files(data_store')]_vars
    /\ [](\A i, j \in 1..Len(data_store) :
             data_store[i].filepath = data_store[j].filepath => i = j)
    /\ [][(accessor_pc[Watcher] = "loaded" /\ accessor_pc'[Watcher] = "idle")
             => \A f \in logged_files(data_store) \cap logged_files(data_store') :
                   StateRank(StateOf(data_store', f))
                       >= StateRank(StateOf(data_store, f))]_vars

====
